---- MODULE Spec2Model ----
(***************************************************************************)
(* TalkNow backend (src/backend/server.py): the request-rate / abuse guard  *)
(* (RateLimiter, RateLimitMiddleware) and the matchmaking queue            *)
(* (MatchmakingManager, the HTTP join-queue / leave-queue handlers).        *)
(*                                                                         *)
(* Time is time.time() in whole seconds.  Abuse scores are Python floats    *)
(* that only ever hold multiples of 0.5 (severities 0.5, 1.0, 2.0 and the   *)
(* +1 of a denied check); they are kept in half units, Halves(1) = 1.0.     *)
(***************************************************************************)
EXTENDS Integers, Sequences, FiniteSets, TLC

VARIABLES
    now,            \* time.time()
    ticks,          \* number of clock advances so far (bounds the clock)
    requests,       \* RateLimiter.requests: client -> list of timestamps
    blocked_ips,    \* RateLimiter.blocked_ips: dict client -> block expiry
    abuse_scores,   \* RateLimiter.abuse_scores: client -> score, in half units
    pending,        \* client -> the admitted requests whose handlers are running
    denied_calls,   \* history: client -> denied check_rate_limit calls so far,
                    \*   counted while record_suspicious_activity was never called
    suspicious_seen,\* history: client -> record_suspicious_activity was called
    rate_op,        \* the last RateLimiter / middleware operation and its outcome
    queue,          \* MatchmakingManager.queue: dict in insertion order
    queue_op,       \* the last queue operation and what it returned
    lock,           \* MatchmakingManager.lock: the task inside async with
    conn_pc,        \* connection -> where its websocket_endpoint coroutine is
    conn_open,      \* connection -> its transport is still open at the peer
    conn_locals,    \* connection -> locals of its handler suspended at an await
    websocket_connections, \* dict user_id -> registered connection
    active_sessions,\* dict session_id -> the two users
    chat_sessions,  \* db.chat_sessions: documents by session id
    chat_messages,  \* db.chat_messages: documents in insertion order
    session_uuids,  \* number of session ids str(uuid.uuid4()) has made so far
    handled,        \* number of inbound messages handled so far (bound)
    relay_op        \* the last relay step: what it handled, sent and raised

rate_vars == <<now, ticks, requests, blocked_ips, abuse_scores, pending,
               denied_calls, suspicious_seen, rate_op>>
queue_vars == <<queue, queue_op, lock>>
relay_vars == <<conn_pc, conn_open, conn_locals, websocket_connections,
                active_sessions, chat_sessions, chat_messages, handled, session_uuids,
                relay_op>>
vars == <<now, ticks, requests, blocked_ips, abuse_scores, pending,
          denied_calls, suspicious_seen, rate_op,
          queue, queue_op, lock,
          conn_pc, conn_open, conn_locals, websocket_connections,
          active_sessions, chat_sessions, chat_messages, handled, session_uuids, relay_op>>

---------------------------------------------------------------------------
(* Bounds of the model *)

MaxTicks == 2
MaxScore == 12
MaxMessages == 4
MaxPending == 2
MaxGuardTicks == 1

\* client identities (get_client_id: "<ip>:<md5 prefix>")
Clients == {"10.0.0.1:9f3a"}

\* Clock advances under direct calls: inside a window, exactly one window,
\* one short block, one long block.
TickSteps == {1, 60, 600, 3600}

\* Clock advances between HTTP requests while handlers report suspicious
\* activity: one window (inside either block), one long block.
GuardTickSteps == {60, 3600}

\* Clock advances between HTTP requests whose handlers report nothing: one
\* window (inside the short block), one short block.
WindowTickSteps == {60, 600}

---------------------------------------------------------------------------
(* Program constants of the rate guard *)

DefaultLimit == 60
DefaultWindow == 60
AuthLimit == 20
ChatLimit == 100
AdminLimit == 200
AbuseBlockScore == 5
AbuseBlockSeconds == 600
SuspiciousBlockScore == 10
SuspiciousBlockSeconds == 3600

\* A score of n whole points, in half units.
Halves(n) == 2 * n

\* severity arguments in half units: 0.5 (failed login), 1.0 (the default),
\* 2.0 (blocked content on /chat/moderate)
LoginSeverity == Halves(1) \div 2
ModerateSeverity == Halves(2)
Severities == {LoginSeverity, Halves(1), ModerateSeverity}

\* limit / window arguments of direct check_rate_limit calls
DirectLimits == {1, 2}
DirectWindows == {DefaultWindow}

---------------------------------------------------------------------------
(* Request paths: "/" + the segments joined by "/" *)

Paths == { <<"api", "">>, <<"api", "health">>,
           <<"api", "auth", "login">>, <<"api", "chat", "moderate">>,
           <<"api", "admin", "abuse-stats">>,
           <<"api", "admin", "reports", "auth", "resolve">>,
           <<"api", "report">>, <<"api", "chat">> }

\* "/<seg>/" in request.url.path : the segment occurs and is not the last one
PathContains(path, seg) ==
    \E i \in 1 .. (Len(path) - 1) : path[i] = seg

\* request.url.path in ["/api/", "/api/health"]
IsHealthPath(path) == path \in { <<"api", "">>, <<"api", "health">> }

\* the limit dispatch picks for a path
PathLimit(path) ==
    IF PathContains(path, "auth") THEN AuthLimit
    ELSE IF PathContains(path, "chat") THEN ChatLimit
    ELSE IF PathContains(path, "admin") THEN AdminLimit
    ELSE DefaultLimit

\* the window dispatch picks for a path (60 in every branch)
PathWindow(path) == DefaultWindow

---------------------------------------------------------------------------
(* RateLimiter *)

\* (mutant) the block still counts at the very second it expires
IsBlockedResult_AtExpiry(b, c, t) == c \in DOMAIN b /\ t <= b[c]

\* is_blocked, return value
IsBlockedResult(b, c, t) == c \in DOMAIN b /\ t < b[c]

\* is_blocked, blocked_ips afterwards: an expired entry is deleted
IsBlockedAfter(b, c, t) ==
    IF c \in DOMAIN b /\ ~(t < b[c])
    THEN [x \in (DOMAIN b) \ {c} |-> b[x]]
    ELSE b

\* (mutant) the expiry is the duration, not a time
BlockClient_NoClock(b, c, t, duration) ==
    [x \in (DOMAIN b) \cup {c} |-> IF x = c THEN duration ELSE b[x]]

\* block_client: blocked_ips[client_id] = time.time() + duration_seconds
BlockClient(b, c, t, duration) ==
    [x \in (DOMAIN b) \cup {c} |-> IF x = c THEN t + duration ELSE b[x]]

\* [t for t in self.requests[client_id] if t > window_start]
KeepsTimestamp(ts, t, window) == ts > t - window

CleanOld(reqs, t, window) ==
    SelectSeq(reqs, LAMBDA ts : KeepsTimestamp(ts, t, window))

\* len(self.requests[client_id]) >= limit
OverLimit(reqs, limit) == Len(reqs) >= limit

\* check_rate_limit, return value
CheckRateLimitResult(reqs, t, limit, window) ==
    ~OverLimit(CleanOld(reqs, t, window), limit)

\* check_rate_limit, self.requests[client_id] afterwards
CheckRateLimitRequests(reqs, t, limit, window) ==
    IF OverLimit(CleanOld(reqs, t, window), limit)
    THEN CleanOld(reqs, t, window)
    ELSE Append(CleanOld(reqs, t, window), t)

\* check_rate_limit, self.abuse_scores[client_id] afterwards
CheckRateLimitScore(reqs, score, t, limit, window) ==
    IF OverLimit(CleanOld(reqs, t, window), limit)
    THEN score + Halves(1)
    ELSE score

\* (mutant) the short block starts one denied call late
CheckRateLimitBlocked_Late(b, reqs, score, c, t, limit, window) ==
    IF /\ OverLimit(CleanOld(reqs, t, window), limit)
       /\ score + Halves(1) > Halves(AbuseBlockScore)
    THEN BlockClient(b, c, t, AbuseBlockSeconds)
    ELSE b

\* check_rate_limit, blocked_ips afterwards
CheckRateLimitBlocked(b, reqs, score, c, t, limit, window) ==
    IF /\ OverLimit(CleanOld(reqs, t, window), limit)
       /\ score + Halves(1) >= Halves(AbuseBlockScore)
    THEN BlockClient(b, c, t, AbuseBlockSeconds)
    ELSE b

\* record_suspicious_activity, self.abuse_scores[client_id] afterwards
RecordSuspiciousScore(score, severity) ==
    IF score + severity >= Halves(SuspiciousBlockScore)
    THEN 0
    ELSE score + severity

\* record_suspicious_activity, blocked_ips afterwards
RecordSuspiciousBlocked(b, score, c, t, severity) ==
    IF score + severity >= Halves(SuspiciousBlockScore)
    THEN BlockClient(b, c, t, SuspiciousBlockSeconds)
    ELSE b

\* rate_op: the operation, its client, its return value (is_blocked,
\* check_rate_limit) and what dispatch did with the request
NoOp == [op |-> "none", client_id |-> "", result |-> FALSE, outcome |-> "none"]

NoRequest == <<>>

\* the history of denied calls after a check_rate_limit call that returned ok
CountDenied(denied, seen, c, ok) ==
    IF ok \/ seen[c] THEN denied ELSE [denied EXCEPT ![c] = @ + 1]

---------------------------------------------------------------------------
(* Actions of the rate guard *)

\* the clock moves on
Tick(d) ==
    /\ ticks < MaxTicks
    /\ now' = now + d
    /\ ticks' = ticks + 1
    /\ rate_op' = [NoOp EXCEPT !.op = "tick"]
    /\ UNCHANGED <<requests, blocked_ips, abuse_scores, pending, denied_calls,
                   suspicious_seen, queue_vars, relay_vars>>

\* rate_limiter.is_blocked(c)
IsBlocked(c) ==
    /\ blocked_ips' = IsBlockedAfter(blocked_ips, c, now)
    /\ rate_op' = [NoOp EXCEPT !.op = "is_blocked", !.client_id = c,
                               !.result = IsBlockedResult(blocked_ips, c, now)]
    /\ UNCHANGED <<now, ticks, requests, abuse_scores, pending, denied_calls,
                   suspicious_seen, queue_vars, relay_vars>>

\* rate_limiter.check_rate_limit(c, limit, window)
CheckRateLimit(c, limit, window) ==
    /\ abuse_scores[c] < Halves(MaxScore)
    /\ requests' = [requests EXCEPT
           ![c] = CheckRateLimitRequests(requests[c], now, limit, window)]
    /\ abuse_scores' = [abuse_scores EXCEPT
           ![c] = CheckRateLimitScore(requests[c], abuse_scores[c], now, limit, window)]
    /\ blocked_ips' = CheckRateLimitBlocked(blocked_ips, requests[c],
                          abuse_scores[c], c, now, limit, window)
    /\ rate_op' = [NoOp EXCEPT !.op = "check_rate_limit", !.client_id = c,
                       !.result = CheckRateLimitResult(requests[c], now, limit, window)]
    /\ denied_calls' = CountDenied(denied_calls, suspicious_seen, c,
                           CheckRateLimitResult(requests[c], now, limit, window))
    /\ UNCHANGED <<now, ticks, pending, suspicious_seen, queue_vars, relay_vars>>

\* rate_limiter.record_suspicious_activity(c, severity)
RecordSuspicious(c, severity) ==
    /\ abuse_scores' = [abuse_scores EXCEPT
           ![c] = RecordSuspiciousScore(abuse_scores[c], severity)]
    /\ blocked_ips' = RecordSuspiciousBlocked(blocked_ips, abuse_scores[c],
                          c, now, severity)
    /\ rate_op' = [NoOp EXCEPT !.op = "record_suspicious_activity",
                       !.client_id = c]
    /\ suspicious_seen' = [suspicious_seen EXCEPT ![c] = TRUE]
    /\ denied_calls' = [denied_calls EXCEPT ![c] = 0]
    /\ UNCHANGED <<now, ticks, requests, pending, queue_vars, relay_vars>>

---------------------------------------------------------------------------
(* RateLimitMiddleware.dispatch and the handlers behind it *)

\* what dispatch does with the request: "exempt" (call_next without any
\* check), "handler" (call_next after both checks), or one of the two 429
\* responses
DispatchOutcome(b, reqs, c, t, path) ==
    IF IsHealthPath(path) THEN "exempt"
    ELSE IF IsBlockedResult(b, c, t) THEN "blocked"
    ELSE IF ~CheckRateLimitResult(reqs, t, PathLimit(path), PathWindow(path))
         THEN "rate_limited"
    ELSE "handler"

\* the handler that reports to the rate limiter once it is resumed from its
\* database read (login, on a wrong password), and with which severity
SuspiciousHandlers == { <<"api", "auth", "login">> }

HandlerSeverity(path) == LoginSeverity

\* (mutant) the rate check also runs for a request that is rejected as
\* blocked
Dispatch_ChecksBlocked(c, path, reports) ==
    LET outcome == DispatchOutcome(blocked_ips, requests[c], c, now, path)
        checked == ~IsHealthPath(path)
        b1      == IF IsHealthPath(path) THEN blocked_ips
                   ELSE IsBlockedAfter(blocked_ips, c, now)
    IN  /\ requests' = IF checked
              THEN [requests EXCEPT ![c] = CheckRateLimitRequests(
                        requests[c], now, PathLimit(path), PathWindow(path))]
              ELSE requests
        /\ abuse_scores' = IF checked
              THEN [abuse_scores EXCEPT ![c] = CheckRateLimitScore(
                        requests[c], abuse_scores[c], now,
                        PathLimit(path), PathWindow(path))]
              ELSE abuse_scores
        /\ blocked_ips' = IF checked
              THEN CheckRateLimitBlocked(b1, requests[c], abuse_scores[c], c,
                        now, PathLimit(path), PathWindow(path))
              ELSE b1
        /\ reports => /\ outcome = "handler"
                      /\ path \in SuspiciousHandlers
                      /\ Len(pending[c]) < MaxPending
        /\ pending' = IF reports
                       THEN [pending EXCEPT ![c] = Append(@, path)]
                       ELSE pending
        /\ rate_op' = [NoOp EXCEPT !.op = "dispatch", !.client_id = c,
                           !.outcome = outcome,
                           !.result = (outcome \in {"exempt", "handler"})]
        /\ denied_calls' = IF checked
              THEN CountDenied(denied_calls, suspicious_seen, c,
                       CheckRateLimitResult(requests[c], now, PathLimit(path),
                                            PathWindow(path)))
              ELSE denied_calls
        /\ UNCHANGED <<now, ticks, suspicious_seen, queue_vars, relay_vars>>

\* one HTTP request of client c to path, whatever the window and the score
\* hold; reports: the handler it is passed to is left running (pending, next
\* to the handlers of earlier requests that are still running) and will
\* report suspicious activity
Dispatch(c, path, reports) ==
    LET outcome == DispatchOutcome(blocked_ips, requests[c], c, now, path)
        checked == ~IsHealthPath(path) /\ ~IsBlockedResult(blocked_ips, c, now)
        b1      == IF IsHealthPath(path) THEN blocked_ips
                   ELSE IsBlockedAfter(blocked_ips, c, now)
    IN  /\ requests' = IF checked
              THEN [requests EXCEPT ![c] = CheckRateLimitRequests(
                        requests[c], now, PathLimit(path), PathWindow(path))]
              ELSE requests
        /\ abuse_scores' = IF checked
              THEN [abuse_scores EXCEPT ![c] = CheckRateLimitScore(
                        requests[c], abuse_scores[c], now,
                        PathLimit(path), PathWindow(path))]
              ELSE abuse_scores
        /\ blocked_ips' = IF checked
              THEN CheckRateLimitBlocked(b1, requests[c], abuse_scores[c], c,
                        now, PathLimit(path), PathWindow(path))
              ELSE b1
        /\ reports => /\ outcome = "handler"
                      /\ path \in SuspiciousHandlers
                      /\ Len(pending[c]) < MaxPending
        /\ pending' = IF reports
                       THEN [pending EXCEPT ![c] = Append(@, path)]
                       ELSE pending
        /\ rate_op' = [NoOp EXCEPT !.op = "dispatch", !.client_id = c,
                           !.outcome = outcome,
                           !.result = (outcome \in {"exempt", "handler"})]
        /\ denied_calls' = IF checked
              THEN CountDenied(denied_calls, suspicious_seen, c,
                       CheckRateLimitResult(requests[c], now, PathLimit(path),
                                            PathWindow(path)))
              ELSE denied_calls
        /\ UNCHANGED <<now, ticks, suspicious_seen, queue_vars, relay_vars>>

\* the sequence without its i-th element
RemoveAt(seq, i) == SubSeq(seq, 1, i - 1) \o SubSeq(seq, i + 1, Len(seq))

\* one of the running login handlers of c is resumed and calls
\* record_suspicious_activity
HandlerSuspicious(c) ==
    \E i \in 1 .. Len(pending[c]) :
    /\ abuse_scores' = [abuse_scores EXCEPT
           ![c] = RecordSuspiciousScore(abuse_scores[c],
                      HandlerSeverity(pending[c][i]))]
    /\ blocked_ips' = RecordSuspiciousBlocked(blocked_ips, abuse_scores[c],
                          c, now, HandlerSeverity(pending[c][i]))
    /\ pending' = [pending EXCEPT ![c] = RemoveAt(@, i)]
    /\ rate_op' = [NoOp EXCEPT !.op = "record_suspicious_activity",
                       !.client_id = c]
    /\ suspicious_seen' = [suspicious_seen EXCEPT ![c] = TRUE]
    /\ denied_calls' = [denied_calls EXCEPT ![c] = 0]
    /\ UNCHANGED <<now, ticks, requests, queue_vars, relay_vars>>

---------------------------------------------------------------------------
(* MatchmakingManager *)

\* Python's None
None == "None"

\* participants (user_id strings)
Users == {"u1", "u2", "u3"}

\* interests arrive as lists and are only ever read through set(...)
Tags == {"gaming", "music"}
InterestSets == SUBSET Tags

\* the interests participants send while the queue is exercised by its
\* callers: equal or disjoint
CallerInterests == { {"gaming"}, {"music"} }

Genders == {"male", "female"}
GenderValues == Genders \cup {None}

\* the value add_to_queue stores under self.queue[user_id] (joined_at, which
\* nothing reads, is left out)
Entry(user_id, interests, prefer_video, is_premium, is_trial, gender, gender_preference) ==
    [user_id |-> user_id, interests |-> interests,
     prefer_video |-> prefer_video, is_premium |-> is_premium,
     is_trial |-> is_trial, gender |-> gender,
     gender_preference |-> gender_preference]

\* user_id in self.queue
InQueue(q, user_id) == \E i \in 1 .. Len(q) : q[i].user_id = user_id

\* position of user_id's entry in the dict's insertion order
IndexOf(q, user_id) == CHOOSE i \in 1 .. Len(q) : q[i].user_id = user_id

\* (mutant) every enqueue adds an entry
SetEntry_AlwaysAppend(q, entry) == Append(q, entry)

\* self.queue[user_id] = {...}: a key already present keeps its position
SetEntry(q, entry) ==
    IF InQueue(q, entry.user_id)
    THEN [q EXCEPT ![IndexOf(q, entry.user_id)] = entry]
    ELSE Append(q, entry)

\* if user_id in self.queue: del self.queue[user_id]
DelEntry(q, user_id) ==
    SelectSeq(q, LAMBDA e : e.user_id # user_id)

\* (mutant) the scan does not skip the caller's own entry
IsSelf_Never(other_id, user_id) == FALSE

\* if other_id == user_id: continue
IsSelf(other_id, user_id) == other_id = user_id

\* (mutant) only the querying side's preference is applied
GenderExcluded_OneWay(user_data, other_data) ==
    /\ user_data.is_premium
    /\ user_data.gender_preference # None
    /\ other_data.gender # user_data.gender_preference

\* the two gender filters of find_match: TRUE when other_data is skipped
GenderExcluded(user_data, other_data) ==
    \/ /\ user_data.is_premium
       /\ user_data.gender_preference # None
       /\ other_data.gender # user_data.gender_preference
    \/ /\ other_data.is_premium
       /\ other_data.gender_preference # None
       /\ user_data.gender # other_data.gender_preference

\* (mutant) the priority bonus follows the caller's entitlement
MatchScore_CallerPriority(user_data, other_data) ==
      Cardinality(user_data.interests \cap other_data.interests) * 10
    + (IF user_data.prefer_video = other_data.prefer_video THEN 5 ELSE 0)
    + (IF user_data.is_premium \/ user_data.is_trial THEN 3 ELSE 0)

\* the score find_match gives other_data
MatchScore(user_data, other_data) ==
      Cardinality(user_data.interests \cap other_data.interests) * 10
    + (IF user_data.prefer_video = other_data.prefer_video THEN 5 ELSE 0)
    + (IF other_data.is_premium \/ other_data.is_trial THEN 3 ELSE 0)

\* (mutant) an equal score replaces the best so far
BeatsBest_OrEqual(score, best_score) == score >= best_score

\* if score > best_score
BeatsBest(score, best_score) == score > best_score

\* the loop of find_match from position i on, with the best so far
RECURSIVE ScanQueue(_, _, _, _)
ScanQueue(q, user_data, i, best) ==
    IF i > Len(q) THEN best
    ELSE IF IsSelf(q[i].user_id, user_data.user_id)
              \/ GenderExcluded(user_data, q[i])
         THEN ScanQueue(q, user_data, i + 1, best)
    ELSE IF BeatsBest(MatchScore(user_data, q[i]), best.score)
         THEN ScanQueue(q, user_data, i + 1,
                  [match |-> q[i].user_id, score |-> MatchScore(user_data, q[i])])
    ELSE ScanQueue(q, user_data, i + 1, best)

\* (mutant) the scan starts from a best score of 0
InitialBest_Zero == [match |-> None, score |-> 0]

\* best_match = None; best_score = -1
InitialBest == [match |-> None, score |-> -1]

\* find_match: best_match and best_score at the return (None without a scan
\* when user_id is not queued)
FindMatchResult(q, user_id) ==
    IF ~InQueue(q, user_id)
    THEN [match |-> None, score |-> -1]
    ELSE ScanQueue(q, q[IndexOf(q, user_id)], 1, InitialBest)

\* queue_op: the operation, its user, find_match's return value and score,
\* join-queue's response body
NoQueueOp == [op |-> "none", user_id |-> None, match |-> None, score |-> -1,
              is_premium |-> FALSE, is_trial |-> FALSE,
              gender_filter_active |-> FALSE]

\* the lock after the end of an `async with self.lock` block of a task
LockExit(task) == None

\* async with self.lock: the block is entered when the lock is free and has
\* no await in it, so entry, body and exit are one step of the event loop
WithLock(task) ==
    /\ lock = None
    /\ lock' = LockExit(task)

---------------------------------------------------------------------------
(* Actions of the matchmaking queue *)

\* matchmaking_manager.add_to_queue(...)
AddToQueue(user_id, interests, prefer_video, is_premium, is_trial, gender, gender_preference) ==
    /\ queue' = SetEntry(queue, Entry(user_id, interests, prefer_video,
                     is_premium, is_trial, gender, gender_preference))
    /\ queue_op' = [NoQueueOp EXCEPT !.op = "add_to_queue", !.user_id = user_id]
    /\ WithLock(user_id)
    /\ UNCHANGED <<rate_vars, relay_vars>>

\* matchmaking_manager.remove_from_queue(user_id)
RemoveFromQueue(user_id) ==
    /\ queue' = DelEntry(queue, user_id)
    /\ queue_op' = [NoQueueOp EXCEPT !.op = "remove_from_queue",
                                     !.user_id = user_id]
    /\ WithLock(user_id)
    /\ UNCHANGED <<rate_vars, relay_vars>>

\* (mutant) find_match takes the partner it returns out of the queue
FindMatch_Dequeues(user_id) ==
    /\ queue_op' = [NoQueueOp EXCEPT !.op = "find_match", !.user_id = user_id,
                        !.match = FindMatchResult(queue, user_id).match,
                        !.score = FindMatchResult(queue, user_id).score]
    /\ queue' = DelEntry(queue, FindMatchResult(queue, user_id).match)
    /\ WithLock(user_id)
    /\ UNCHANGED <<rate_vars, relay_vars>>

\* matchmaking_manager.find_match(user_id)
FindMatch(user_id) ==
    /\ queue_op' = [NoQueueOp EXCEPT !.op = "find_match", !.user_id = user_id,
                        !.match = FindMatchResult(queue, user_id).match,
                        !.score = FindMatchResult(queue, user_id).score]
    /\ WithLock(user_id)
    /\ UNCHANGED <<queue, rate_vars, relay_vars>>

---------------------------------------------------------------------------
(* POST /api/chat/join-queue *)

\* what the token and the database hold for each participant: the token's
\* is_anonymous, whether db.users has a document, its is_premium and gender,
\* and whether db.trial_sessions has an active trial
Profile(user_id) ==
    CASE user_id = "u1" ->
           [is_anonymous |-> FALSE, has_doc |-> TRUE, is_premium |-> FALSE,
            gender |-> "male", trial_active |-> TRUE]
      [] user_id = "u2" ->
           [is_anonymous |-> TRUE, has_doc |-> FALSE, is_premium |-> FALSE,
            gender |-> None, trial_active |-> FALSE]
      [] OTHER ->
           [is_anonymous |-> FALSE, has_doc |-> TRUE, is_premium |-> TRUE,
            gender |-> "female", trial_active |-> FALSE]

\* does join_queue read the user document
JoinReadsDoc(profile) == ~profile.is_anonymous /\ profile.has_doc

JoinIsPremium(profile) == JoinReadsDoc(profile) /\ profile.is_premium

JoinGender(profile) == IF JoinReadsDoc(profile) THEN profile.gender ELSE None

\* (mutant) the preference is stored for every caller with a document
JoinGenderPreference_AnyCaller(profile, gender_preference) ==
    IF JoinReadsDoc(profile) THEN gender_preference ELSE None

\* actual_gender_preference
JoinGenderPreference(profile, gender_preference) ==
    IF JoinReadsDoc(profile) /\ gender_preference # None /\ profile.is_premium
    THEN gender_preference
    ELSE None

JoinIsTrial(profile, use_trial) ==
    /\ JoinReadsDoc(profile)
    /\ use_trial
    /\ ~profile.is_premium
    /\ profile.trial_active

\* join_queue for an authenticated caller, profile being what the token and
\* the database hold for the caller
JoinQueue(user_id, profile, interests, prefer_video, use_trial, gender_preference) ==
    /\ queue' = SetEntry(queue,
           Entry(user_id, interests, prefer_video,
                 JoinIsPremium(profile),
                 JoinIsTrial(profile, use_trial),
                 JoinGender(profile),
                 JoinGenderPreference(profile, gender_preference)))
    /\ queue_op' = [NoQueueOp EXCEPT !.op = "join_queue", !.user_id = user_id,
           !.is_premium = JoinIsPremium(profile),
           !.is_trial = JoinIsTrial(profile, use_trial),
           !.gender_filter_active =
               (JoinGenderPreference(profile, gender_preference) # None)]
    /\ WithLock(user_id)
    /\ UNCHANGED <<rate_vars, relay_vars>>

---------------------------------------------------------------------------
(* find_match as a function of the queue: any two entries add_to_queue accepts *)

ScanUsers == <<"u1", "u2">>

Entries(user_id) ==
    { Entry(user_id, interests, prefer_video, is_premium, is_trial, gender,
            gender_preference) :
        interests \in InterestSets, prefer_video \in BOOLEAN,
        is_premium \in BOOLEAN, is_trial \in BOOLEAN,
        gender \in GenderValues, gender_preference \in GenderValues }

---------------------------------------------------------------------------
(* The WebSocket endpoint /ws/{user_id} *)

\* the connections that can be opened: two for u1, one for u2 and for u3
Conns == {"a1", "a2", "b1", "c1"}

\* the user_id in the path of the connection's URL
ConnUser(c) ==
    CASE c \in {"a1", "a2"} -> "u1"
      [] c = "b1" -> "u2"
      [] OTHER -> "u3"

\* str(uuid.uuid4()): the n-th session id handed out
SessionId(n) == "s" \o ToString(n)

\* an outbound JSON message; the fields a message type does not carry keep
\* these values
OutMsg == [type |-> None, session_id |-> None, partner_id |-> None,
           chat_type |-> None, queue_size |-> 0, from |-> None,
           data |-> None, content |-> None, is_warned |-> FALSE]

\* "video" if prefer_video else "text"
ChatType(prefer_video) == IF prefer_video THEN "video" ELSE "text"

MatchedMsg(session_id, partner_id, chat_type) ==
    [OutMsg EXCEPT !.type = "matched", !.session_id = session_id,
                   !.partner_id = partner_id, !.chat_type = chat_type]

\* (mutant) the queue size without the caller
WaitingMsg_Others(queue_size) ==
    [OutMsg EXCEPT !.type = "waiting", !.queue_size = queue_size - 1]

WaitingMsg(queue_size) ==
    [OutMsg EXCEPT !.type = "waiting", !.queue_size = queue_size]

ForwardMsg(type, data, from) ==
    [OutMsg EXCEPT !.type = type, !.data = data, !.from = from]

\* (mutant) the warning is not passed on
ChatMsg_NeverWarned(content, from, is_warned) ==
    [OutMsg EXCEPT !.type = "chat_message", !.content = content,
                   !.from = from, !.is_warned = FALSE]

ChatMsg(content, from, is_warned) ==
    [OutMsg EXCEPT !.type = "chat_message", !.content = content,
                   !.from = from, !.is_warned = is_warned]

BlockedMsg == [OutMsg EXCEPT !.type = "message_blocked"]

PartnerDisconnectedMsg == [OutMsg EXCEPT !.type = "partner_disconnected"]

ReadyMsg == [OutMsg EXCEPT !.type = "ready_to_match"]

\* relay_op: the step, its connection, the type of the inbound message the
\* step belongs to, the messages of that handling that reached a peer so far
\* (connection and message, in order), whether an exception left the loop,
\* the session a find_match handling created, whether the teardown found a
\* queue entry to remove, and the reply the moderation of a chat_message got
NoRelayOp == [op |-> "none", conn |-> None, type |-> None, sends |-> <<>>,
              raised |-> FALSE, session_id |-> None, dequeued |-> FALSE,
              reply |-> None]

\* the locals of a connection whose handler is not inside a branch: the
\* message's type and fields, match_id, the reply moderate_content got and
\* the action of its result, whether the database write being awaited will
\* raise, the send_text being awaited (which message, on which connection)
\* and the messages of the handling that reached a peer so far
NoLocals == [type |-> None, match_id |-> None, prefer_video |-> FALSE,
             session_id |-> None, partner_id |-> None, content |-> None,
             reply |-> None, action |-> None, db_fails |-> FALSE,
             stage |-> None, to |-> None, sent |-> <<>>]

\* the positions at which a handler is suspended on a database write:
\* db.chat_sessions.insert_one, db.chat_messages.insert_one and
\* db.chat_sessions.update_one
DbPcs == {"insert", "chat_insert", "update"}

\* the positions at which a handler is suspended inside a branch of the loop:
\* on a database write, in moderate_content, in send_text
AwaitPcs == DbPcs \cup {"moderate", "send"}

\* partner_id and partner_id in websocket_connections
Registered(reg, user_id) == user_id \in DOMAIN reg /\ reg[user_id] # None

\* await <connection k>.send_text(msg) is reached with these locals: the
\* message reaches the peer if the transport of k is open, and the handler is
\* suspended in the send
Sending(locals, k, msg, stage) ==
    [locals EXCEPT !.stage = stage, !.to = k,
                   !.sent = IF conn_open[k]
                            THEN Append(@, [to |-> k, msg |-> msg])
                            ELSE @]

\* the position of a handler with these locals: in a send, or back at
\* receive_text
PcOf(locals) == IF locals.stage = None THEN "recv" ELSE "send"

\* the session a handling with these locals created
CreatedSession(locals) ==
    IF locals.type = "find_match" THEN locals.session_id ELSE None

\* finally: del websocket_connections[user_id] if present
TeardownRegistry(reg, user_id) == [reg EXCEPT ![user_id] = None]

\* finally: await matchmaking_manager.remove_from_queue(user_id)
TeardownQueue(q, user_id) == DelEntry(q, user_id)

\* the handler of c goes on to its next await: pc inside the branch, or
\* receive_text when the branch is over
Continue(c, pc, locals, op) ==
    /\ conn_pc' = [conn_pc EXCEPT ![c] = pc]
    /\ conn_locals' = [conn_locals EXCEPT ![c] =
                          IF pc = "recv" THEN NoLocals ELSE locals]
    /\ relay_op' = [NoRelayOp EXCEPT !.op = op, !.conn = c,
                       !.type = locals.type, !.sends = locals.sent,
                       !.session_id = CreatedSession(locals),
                       !.reply = locals.reply]

\* an exception leaves the loop of c: except, then finally
LoopRaised(c, locals, op) ==
    /\ conn_pc' = [conn_pc EXCEPT ![c] = "closed"]
    /\ conn_locals' = [conn_locals EXCEPT ![c] = NoLocals]
    /\ websocket_connections' =
           TeardownRegistry(websocket_connections, ConnUser(c))
    /\ queue' = TeardownQueue(queue, ConnUser(c))
    /\ relay_op' = [NoRelayOp EXCEPT !.op = op, !.conn = c,
                       !.type = locals.type, !.sends = locals.sent,
                       !.raised = TRUE,
                       !.session_id = CreatedSession(locals),
                       !.dequeued = InQueue(queue, ConnUser(c)),
                       !.reply = locals.reply]
    /\ UNCHANGED queue_op
    /\ WithLock(ConnUser(c))

---------------------------------------------------------------------------
(* Steps of a connection *)

\* await websocket.accept(); websocket_connections[user_id] = websocket
Connect(c) ==
    /\ conn_pc[c] = "new"
    /\ conn_pc' = [conn_pc EXCEPT ![c] = "recv"]
    /\ conn_open' = [conn_open EXCEPT ![c] = TRUE]
    /\ websocket_connections' =
           [websocket_connections EXCEPT ![ConnUser(c)] = c]
    /\ relay_op' = [NoRelayOp EXCEPT !.op = "connect", !.conn = c]
    /\ UNCHANGED <<conn_locals, active_sessions, chat_sessions, chat_messages,
                   handled, session_uuids, rate_vars, queue_vars>>

\* the peer closes the transport; the coroutine notices at its next receive
\* or send
TransportClose(c) ==
    /\ conn_pc[c] \in {"recv"} \cup AwaitPcs
    /\ conn_open[c]
    /\ conn_open' = [conn_open EXCEPT ![c] = FALSE]
    /\ relay_op' = [NoRelayOp EXCEPT !.op = "transport_close", !.conn = c]
    /\ UNCHANGED <<conn_pc, conn_locals, websocket_connections,
                   active_sessions, chat_sessions, chat_messages, handled, session_uuids,
                   rate_vars, queue_vars>>

\* receive_text raises WebSocketDisconnect: except, then finally
RecvClosed(c) ==
    /\ conn_pc[c] = "recv"
    /\ ~conn_open[c]
    /\ LoopRaised(c, NoLocals, "teardown")
    /\ UNCHANGED <<conn_open, active_sessions, chat_sessions, chat_messages,
                   handled, session_uuids, rate_vars>>

\* a send_text that c awaited returns or raises.  On a transport that has
\* closed it raises or returns, as the server decides (fails).  When it
\* returns the branch goes on: after the caller's matched message the
\* partner's, if the partner is registered now; after partner_disconnected
\* the ready_to_match of a skip; otherwise the branch is over
SendDone(c, fails) ==
    LET locals  == conn_locals[c]
        raised  == ~conn_open[locals.to] /\ fails
        next    ==
            CASE locals.stage = "matched"
                   /\ Registered(websocket_connections, locals.match_id)
                   -> Sending(locals, websocket_connections[locals.match_id],
                              MatchedMsg(locals.session_id, ConnUser(c),
                                         ChatType(locals.prefer_video)),
                              "matched_partner")
              [] locals.stage = "partner_disconnected" /\ locals.type = "skip"
                   -> Sending(locals, c, ReadyMsg, "ready_to_match")
              [] OTHER -> [locals EXCEPT !.stage = None, !.to = None]
    IN  /\ conn_pc[c] = "send"
        /\ IF raised
           THEN LoopRaised(c, locals, "send_done")
           ELSE /\ Continue(c, PcOf(next), next, "send_done")
                /\ UNCHANGED <<websocket_connections, queue_vars>>
        /\ UNCHANGED <<conn_open, active_sessions, chat_sessions,
                       chat_messages, handled, session_uuids, rate_vars>>

\* a database write that c awaited raises: except, then finally
PersistFailed(c) ==
    /\ conn_pc[c] \in DbPcs
    /\ conn_locals[c].db_fails
    /\ LoopRaised(c, conn_locals[c], "persist_failed")
    /\ UNCHANGED <<conn_open, active_sessions, chat_sessions, chat_messages,
                   handled, session_uuids, rate_vars>>

\* db.chat_sessions.insert_one(session_doc)
InsertSession(sessions, session_id, user_id, match_id, chat_type) ==
    [s \in DOMAIN sessions \cup {session_id} |->
        IF s = session_id
        THEN [user1_id |-> user_id, user2_id |-> match_id,
              status |-> "active", chat_type |-> chat_type]
        ELSE sessions[s]]

\* message["type"] == "find_match", up to its first await that suspends:
\* add_to_queue and find_match, then on a miss the waiting message is sent,
\* on a hit the session document is handed to db.chat_sessions.insert_one
RecvFindMatch(c, interests, prefer_video, use_trial) ==
    LET user_id    == ConnUser(c)
        queued     == SetEntry(queue, Entry(user_id, interests, prefer_video,
                                            FALSE, use_trial, None, None))
        match_id   == FindMatchResult(queued, user_id).match
        session_id == SessionId(session_uuids + 1)
        locals     == [NoLocals EXCEPT !.type = "find_match"]
    IN  /\ conn_pc[c] = "recv"
        /\ conn_open[c]
        /\ handled < MaxMessages
        /\ handled' = handled + 1
        /\ queue' = queued
        /\ IF match_id # None
           THEN /\ session_uuids' = session_uuids + 1
                /\ chat_sessions' =
                       InsertSession(chat_sessions, session_id, user_id,
                                     match_id, ChatType(prefer_video))
                /\ Continue(c, "insert",
                       [locals EXCEPT !.match_id = match_id,
                                      !.prefer_video = prefer_video,
                                      !.session_id = session_id],
                       "message")
           ELSE /\ Continue(c, "send",
                       Sending(locals, c, WaitingMsg(Len(queued)), "waiting"),
                       "message")
                /\ UNCHANGED <<chat_sessions, session_uuids>>
        /\ UNCHANGED <<conn_open, websocket_connections, active_sessions,
                       chat_messages, rate_vars, queue_op>>
        /\ WithLock(ConnUser(c))

\* a find_match with a hit whose db.chat_sessions.insert_one will raise: no
\* document is written
InsertFailed(c, interests, prefer_video, use_trial) ==
    LET user_id    == ConnUser(c)
        queued     == SetEntry(queue, Entry(user_id, interests, prefer_video,
                                            FALSE, use_trial, None, None))
        match_id   == FindMatchResult(queued, user_id).match
        session_id == SessionId(session_uuids + 1)
    IN  /\ conn_pc[c] = "recv"
        /\ conn_open[c]
        /\ match_id # None
        /\ handled < MaxMessages
        /\ handled' = handled + 1
        /\ session_uuids' = session_uuids + 1
        /\ queue' = queued
        /\ Continue(c, "insert",
               [NoLocals EXCEPT !.type = "find_match",
                                !.match_id = match_id,
                                !.prefer_video = prefer_video,
                                !.session_id = session_id,
                                !.db_fails = TRUE],
               "message")
        /\ UNCHANGED <<conn_open, websocket_connections, active_sessions,
                       chat_sessions, chat_messages, rate_vars, queue_op>>
        /\ WithLock(ConnUser(c))

\* the find_match hit resumed after insert_one returned: both
\* remove_from_queue calls, active_sessions, and the caller's matched message
\* is sent
InsertDone(c) ==
    LET user_id    == ConnUser(c)
        locals     == conn_locals[c]
        match_id   == locals.match_id
        session_id == locals.session_id
    IN  /\ conn_pc[c] = "insert"
        /\ ~locals.db_fails
        /\ active_sessions' =
               [s \in DOMAIN active_sessions \cup {session_id} |->
                   IF s = session_id
                   THEN [user1 |-> user_id, user2 |-> match_id]
                   ELSE active_sessions[s]]
        /\ queue' = DelEntry(DelEntry(queue, user_id), match_id)
        /\ Continue(c, "send",
               Sending(locals, c,
                       MatchedMsg(session_id, match_id,
                                  ChatType(locals.prefer_video)),
                       "matched"),
               "insert_done")
        /\ UNCHANGED <<conn_open, websocket_connections, chat_sessions,
                       chat_messages, handled, session_uuids, rate_vars, queue_op>>
        /\ WithLock(ConnUser(c))

\* message["type"] in ["offer", "answer", "ice-candidate"]: sent on to the
\* partner_id of the message if that is registered
RecvForward(c, type, partner_id, data) ==
    LET locals == [NoLocals EXCEPT !.type = type, !.partner_id = partner_id]
        next   == IF partner_id # None
                     /\ Registered(websocket_connections, partner_id)
                  THEN Sending(locals, websocket_connections[partner_id],
                               ForwardMsg(type, data, ConnUser(c)), "forward")
                  ELSE locals
    IN  /\ conn_pc[c] = "recv"
        /\ conn_open[c]
        /\ handled < MaxMessages
        /\ handled' = handled + 1
        /\ UNCHANGED session_uuids
        /\ Continue(c, PcOf(next), next, "message")
        /\ UNCHANGED <<conn_open, websocket_connections, active_sessions,
                       chat_sessions, chat_messages, rate_vars, queue_vars>>

\* the texts a participant sends
Contents == {"hello", "slur"}

\* a verdict of the moderation service with the given action
Verdict(action) ==
    [raises |-> FALSE, is_json |-> TRUE, has_fields |-> TRUE,
     action |-> action]

\* LlmChat.send_message: the same verdict, action "allow", for every text
ModerationReply(content) == Verdict("allow")

\* what the moderation service that LlmChat.send_message stands for can do
\* with a text: give a verdict with one of the three actions, raise, answer
\* with text that is not JSON, or answer with JSON without the fields of
\* ModerationResult
ServiceReplies ==
    { Verdict("allow"), Verdict("warn"), Verdict("block"),
      [raises |-> TRUE, is_json |-> FALSE, has_fields |-> FALSE,
       action |-> None],
      [raises |-> FALSE, is_json |-> FALSE, has_fields |-> FALSE,
       action |-> None],
      [raises |-> FALSE, is_json |-> TRUE, has_fields |-> FALSE,
       action |-> None] }

\* (mutant) no verdict, no delivery
ModerationAction_FailClosed(reply) ==
    IF reply.raises \/ ~reply.is_json \/ ~reply.has_fields
    THEN "block"
    ELSE reply.action

\* moderate_content(content).action for a reply of send_message: the action
\* of the parsed response, and "allow" when send_message, json.loads or
\* ModerationResult(**result) raised
ModerationAction(reply) ==
    IF reply.raises \/ ~reply.is_json \/ ~reply.has_fields
    THEN "allow"
    ELSE reply.action

\* (mutant) the document is inserted whatever the verdict
ChatPersist_Always(messages, action, msg_doc) == Append(messages, msg_doc)

\* db.chat_messages.insert_one(msg_doc), in the branch of a verdict other
\* than "block"
ChatPersist(messages, action, msg_doc) ==
    IF action = "block" THEN messages ELSE Append(messages, msg_doc)

\* message["type"] == "chat_message": the fields are read and
\* moderate_content is called
RecvChatMessage(c, session_id, partner_id, content) ==
    /\ conn_pc[c] = "recv"
    /\ conn_open[c]
    /\ handled < MaxMessages
    /\ handled' = handled + 1
    /\ UNCHANGED session_uuids
    /\ Continue(c, "moderate",
           [NoLocals EXCEPT !.type = "chat_message",
                            !.session_id = session_id,
                            !.partner_id = partner_id,
                            !.content = content],
           "message")
    /\ UNCHANGED <<conn_open, websocket_connections, active_sessions,
                   chat_sessions, chat_messages, rate_vars, queue_vars>>

\* moderate_content returns with the result made of reply: on "block"
\* message_blocked is sent to the sender, otherwise the document is handed
\* to db.chat_messages.insert_one
ModerationDone(c, reply) ==
    LET action == ModerationAction(reply)
        locals == [conn_locals[c] EXCEPT !.reply = reply, !.action = action]
    IN  /\ conn_pc[c] = "moderate"
        /\ chat_messages' =
               ChatPersist(chat_messages, action,
                           [session_id |-> locals.session_id,
                            sender_id |-> ConnUser(c),
                            content |-> locals.content])
        /\ IF action = "block"
           THEN Continue(c, "send",
                    Sending(locals, c, BlockedMsg, "message_blocked"),
                    "moderation_done")
           ELSE Continue(c, "chat_insert", locals, "moderation_done")
        /\ UNCHANGED <<conn_open, websocket_connections, active_sessions,
                       chat_sessions, handled, session_uuids, rate_vars, queue_vars>>

\* moderate_content returns with a result other than "block" and
\* db.chat_messages.insert_one will raise: no document is written
ChatInsertFailed(c, reply) ==
    LET action == ModerationAction(reply)
    IN  /\ conn_pc[c] = "moderate"
        /\ action # "block"
        /\ Continue(c, "chat_insert",
               [conn_locals[c] EXCEPT !.reply = reply, !.action = action,
                                      !.db_fails = TRUE],
               "moderation_done")
        /\ UNCHANGED <<conn_open, websocket_connections, active_sessions,
                       chat_sessions, chat_messages, handled, session_uuids, rate_vars,
                       queue_vars>>

\* the chat_message resumed after insert_one returned: the registry is read
\* and the message sent to the partner if registered
ChatInsertDone(c) ==
    LET locals == conn_locals[c]
        next   == IF locals.partner_id # None
                     /\ Registered(websocket_connections, locals.partner_id)
                  THEN Sending(locals,
                               websocket_connections[locals.partner_id],
                               ChatMsg(locals.content, ConnUser(c),
                                       locals.action = "warn"),
                               "chat_message")
                  ELSE locals
    IN  /\ conn_pc[c] = "chat_insert"
        /\ ~locals.db_fails
        /\ Continue(c, PcOf(next), next, "chat_insert_done")
        /\ UNCHANGED <<conn_open, websocket_connections, active_sessions,
                       chat_sessions, chat_messages, handled, session_uuids, rate_vars,
                       queue_vars>>

\* db.chat_sessions.update_one({"id": session_id}, {"$set": {"status": "ended"}})
EndSession(sessions, session_id) ==
    IF session_id # None /\ session_id \in DOMAIN sessions
    THEN [sessions EXCEPT ![session_id].status = "ended"]
    ELSE sessions

\* if session_id in active_sessions: del active_sessions[session_id]
DropActive(active, session_id) ==
    IF session_id # None
    THEN [s \in DOMAIN active \ {session_id} |-> active[s]]
    ELSE active

\* a skip or disconnect after its session part: partner_disconnected is sent
\* to the partner_id of the message if that is registered; if not, a skip
\* sends ready_to_match to the caller and a disconnect is over
SkipNext(c, locals) ==
    IF locals.partner_id # None
       /\ Registered(websocket_connections, locals.partner_id)
    THEN Sending(locals, websocket_connections[locals.partner_id],
                 PartnerDisconnectedMsg, "partner_disconnected")
    ELSE IF locals.type = "skip"
    THEN Sending(locals, c, ReadyMsg, "ready_to_match")
    ELSE locals

\* message["type"] in ["skip", "disconnect"], up to its first await that
\* suspends: with a session_id the update is handed to
\* db.chat_sessions.update_one, without one the sends follow at once
RecvSkip(c, type, session_id, partner_id) ==
    LET locals == [NoLocals EXCEPT !.type = type, !.session_id = session_id,
                                   !.partner_id = partner_id]
        next   == SkipNext(c, locals)
    IN  /\ conn_pc[c] = "recv"
        /\ conn_open[c]
        /\ handled < MaxMessages
        /\ handled' = handled + 1
        /\ UNCHANGED session_uuids
        /\ IF session_id # None
           THEN /\ chat_sessions' = EndSession(chat_sessions, session_id)
                /\ Continue(c, "update", locals, "message")
           ELSE /\ Continue(c, PcOf(next), next, "message")
                /\ UNCHANGED chat_sessions
        /\ UNCHANGED <<conn_open, websocket_connections, active_sessions,
                       chat_messages, rate_vars, queue_vars>>

\* a skip or disconnect with a session_id whose
\* db.chat_sessions.update_one will raise: nothing is written
RecvSkipPersistFailed(c, type, session_id, partner_id) ==
    /\ conn_pc[c] = "recv"
    /\ conn_open[c]
    /\ session_id # None
    /\ handled < MaxMessages
    /\ handled' = handled + 1
    /\ UNCHANGED session_uuids
    /\ Continue(c, "update",
           [NoLocals EXCEPT !.type = type, !.session_id = session_id,
                            !.partner_id = partner_id, !.db_fails = TRUE],
           "message")
    /\ UNCHANGED <<conn_open, websocket_connections, active_sessions,
                   chat_sessions, chat_messages, rate_vars, queue_vars>>

\* the skip or disconnect resumed after update_one returned: the session
\* leaves active_sessions, then the sends
SkipUpdateDone(c) ==
    LET locals == conn_locals[c]
        next   == SkipNext(c, locals)
    IN  /\ conn_pc[c] = "update"
        /\ ~locals.db_fails
        /\ active_sessions' = DropActive(active_sessions, locals.session_id)
        /\ Continue(c, PcOf(next), next, "update_done")
        /\ UNCHANGED <<conn_open, websocket_connections, chat_sessions,
                       chat_messages, handled, session_uuids, rate_vars, queue_vars>>

\* the message types the loop has a branch for
KnownTypes == {"find_match", "offer", "answer", "ice-candidate",
               "chat_message", "skip", "disconnect"}

\* frames that no branch handles: text that is not JSON, an object without
\* "type", an object whose type is none of the known ones
OtherFrames ==
    { [decodable |-> FALSE, has_type |-> FALSE, type |-> None],
      [decodable |-> TRUE, has_type |-> FALSE, type |-> None],
      [decodable |-> TRUE, has_type |-> TRUE, type |-> "typing"] }

\* json.loads(data) raises JSONDecodeError, message["type"] raises KeyError
FrameRaises(frame) == ~frame.decodable \/ ~frame.has_type

\* a frame of OtherFrames arrives: the exception leaves the loop through
\* except Exception and finally; an unknown type falls through every branch
RecvOther(c, frame) ==
    LET locals == [NoLocals EXCEPT !.type = frame.type]
    IN  /\ conn_pc[c] = "recv"
        /\ conn_open[c]
        /\ frame.type \notin KnownTypes
        /\ handled < MaxMessages
        /\ handled' = handled + 1
        /\ UNCHANGED session_uuids
        /\ IF FrameRaises(frame)
           THEN LoopRaised(c, locals, "message")
           ELSE /\ Continue(c, "recv", locals, "message")
                /\ UNCHANGED <<websocket_connections, queue_vars>>
        /\ UNCHANGED <<conn_open, active_sessions, chat_sessions,
                       chat_messages, rate_vars>>

\* the relay before any connection
RelayInit ==
    /\ conn_pc = [c \in Conns |-> "new"]
    /\ conn_open = [c \in Conns |-> FALSE]
    /\ conn_locals = [c \in Conns |-> NoLocals]
    /\ websocket_connections = [u \in Users |-> None]
    /\ active_sessions = <<>>
    /\ chat_sessions = <<>>
    /\ chat_messages = <<>>
    /\ handled = 0
    /\ session_uuids = 0
    /\ relay_op = NoRelayOp

---------------------------------------------------------------------------
(* Initial state and specifications *)

Init ==
    /\ now = 0
    /\ ticks = 0
    /\ requests = [c \in Clients |-> <<>>]
    /\ blocked_ips = <<>>
    /\ abuse_scores = [c \in Clients |-> 0]
    /\ pending = [c \in Clients |-> NoRequest]
    /\ denied_calls = [c \in Clients |-> 0]
    /\ suspicious_seen = [c \in Clients |-> FALSE]
    /\ rate_op = NoOp
    /\ queue = <<>>
    /\ queue_op = NoQueueOp
    /\ lock = None
    /\ RelayInit

\* the matchmaking queue under its two callers: add_to_queue as the WebSocket
\* handler calls it (never premium, no gender, no preference), join-queue and
\* leave-queue over HTTP, and the calls the handler makes after a match
NextQueue ==
    \/ \E u \in Users, interests \in CallerInterests, prefer_video \in BOOLEAN,
          use_trial \in BOOLEAN :
           AddToQueue(u, interests, prefer_video, FALSE, use_trial, None, None)
    \/ \E u \in Users, interests \in CallerInterests, prefer_video \in BOOLEAN,
          use_trial \in BOOLEAN, gender_preference \in GenderValues :
           JoinQueue(u, Profile(u), interests, prefer_video, use_trial,
                     gender_preference)
    \/ \E u \in Users : RemoveFromQueue(u)
    \/ \E u \in Users : FindMatch(u)

SpecQueue == Init /\ [][NextQueue]_vars

\* find_match and join-queue on a queue of any two entries
InitScan ==
    /\ now = 0
    /\ ticks = 0
    /\ requests = [c \in Clients |-> <<>>]
    /\ blocked_ips = <<>>
    /\ abuse_scores = [c \in Clients |-> 0]
    /\ pending = [c \in Clients |-> NoRequest]
    /\ denied_calls = [c \in Clients |-> 0]
    /\ suspicious_seen = [c \in Clients |-> FALSE]
    /\ rate_op = NoOp
    /\ \E e1 \in Entries(ScanUsers[1]), e2 \in Entries(ScanUsers[2]) :
           queue = <<e1, e2>>
    /\ queue_op = NoQueueOp
    /\ lock = None
    /\ RelayInit

NextScan ==
    \/ \E i \in 1 .. Len(ScanUsers) : FindMatch(ScanUsers[i])
    \/ \E i \in 1 .. Len(ScanUsers) : RemoveFromQueue(ScanUsers[i])
    \/ \E i \in 1 .. Len(ScanUsers), interests \in CallerInterests,
          use_trial \in BOOLEAN, gender_preference \in GenderValues :
           JoinQueue(ScanUsers[i], Profile(ScanUsers[i]), interests, FALSE,
                     use_trial, gender_preference)

SpecScan == InitScan /\ [][NextScan]_vars

\* the RateLimiter object under direct calls
NextRate ==
    \/ \E d \in TickSteps : Tick(d)
    \/ \E c \in Clients : IsBlocked(c)
    \/ \E c \in Clients, limit \in DirectLimits, window \in DirectWindows :
           CheckRateLimit(c, limit, window)
    \/ \E c \in Clients, severity \in Severities : RecordSuspicious(c, severity)

SpecRate == Init /\ [][NextRate]_vars

\* the paths requested while handlers report: both exempt paths and every
\* class of limit up to 100
GuardPaths == Paths \ { <<"api", "admin", "abuse-stats">> }

\* the HTTP admission boundary
NextGuard ==
    \/ \E d \in GuardTickSteps : ticks < MaxGuardTicks /\ Tick(d)
    \/ \E c \in Clients, path \in GuardPaths, reports \in BOOLEAN :
           Dispatch(c, path, reports)
    \/ \E c \in Clients : HandlerSuspicious(c)

SpecGuard == Init /\ [][NextGuard]_vars

\* the HTTP admission boundary with handlers that report nothing
NextWindow ==
    \/ \E d \in WindowTickSteps : Tick(d)
    \/ \E c \in Clients, path \in Paths : Dispatch(c, path, FALSE)

SpecWindow == Init /\ [][NextWindow]_vars

\* the interests a find_match message carries
RelayInterests == {{"gaming", "music"}}

\* the session ids a client can put in a message: the ones handed out, or none
MessageSessionIds == DOMAIN chat_sessions \cup {None}

\* the partner ids a client can put in a message
MessagePartnerIds == Users \cup {None}

\* one connection for u1 and for u2; u3 queues over HTTP only
PairConns == {"a1", "b1"}

\* pairing: connections open, send find_match, close, while a premium
\* participant joins the queue through POST /api/chat/join-queue
NextPair ==
    \/ \E gender_preference \in {None, "female"} :
           /\ ~InQueue(queue, "u3")
           /\ JoinQueue("u3", Profile("u3"), {"gaming"}, FALSE, FALSE,
                        gender_preference)
    \/ \E c \in PairConns : Connect(c)
    \/ \E c \in PairConns : TransportClose(c)
    \/ \E c \in PairConns : RecvClosed(c)
    \/ \E c \in PairConns, interests \in RelayInterests,
          prefer_video \in BOOLEAN, use_trial \in BOOLEAN :
           RecvFindMatch(c, interests, prefer_video, use_trial)
    \/ \E c \in PairConns : InsertDone(c)
    \/ \E c \in PairConns, fails \in BOOLEAN : SendDone(c, fails)

SpecPair == Init /\ [][NextPair]_vars

\* two connections of u1 and one of u2
RegistryConns == {"a1", "a2", "b1"}

\* connections that supersede one another, pair and close
NextRegistry ==
    \/ \E c \in RegistryConns : Connect(c)
    \/ \E c \in RegistryConns : TransportClose(c)
    \/ \E c \in RegistryConns : RecvClosed(c)
    \/ \E c \in RegistryConns :
           RecvFindMatch(c, {"gaming"}, FALSE, FALSE)
    \/ \E c \in RegistryConns : InsertDone(c)
    \/ \E c \in RegistryConns, fails \in BOOLEAN : SendDone(c, fails)

SpecRegistry == Init /\ [][NextRegistry]_vars

\* what the event loop and the collaborators guarantee: a receive_text on a
\* closed transport raises, a session write returns, and a send_text on a
\* closed transport returns or raises.  A send_text on an open transport
\* whose peer does not read has no timeout and need not return
SpecRegistryFair ==
    /\ SpecRegistry
    /\ \A c \in RegistryConns :
          /\ WF_vars(RecvClosed(c))
          /\ WF_vars(InsertDone(c))
          /\ WF_vars(\E fails \in BOOLEAN :
                        /\ conn_pc[c] = "send"
                        /\ ~conn_open[conn_locals[c].to]
                        /\ SendDone(c, fails))

\* the two connections of a session
ChatConns == {"a1", "b1"}

\* u1 and u2 are connected and paired: u1 waited, u2's find_match hit
InitChat ==
    /\ now = 0
    /\ ticks = 0
    /\ requests = [c \in Clients |-> <<>>]
    /\ blocked_ips = <<>>
    /\ abuse_scores = [c \in Clients |-> 0]
    /\ pending = [c \in Clients |-> NoRequest]
    /\ denied_calls = [c \in Clients |-> 0]
    /\ suspicious_seen = [c \in Clients |-> FALSE]
    /\ rate_op = NoOp
    /\ queue = <<>>
    /\ queue_op = NoQueueOp
    /\ lock = None
    /\ conn_pc = [c \in Conns |-> IF c \in ChatConns THEN "recv" ELSE "new"]
    /\ conn_open = [c \in Conns |-> c \in ChatConns]
    /\ conn_locals = [c \in Conns |-> NoLocals]
    /\ websocket_connections =
           [u \in Users |-> CASE u = "u1" -> "a1" [] u = "u2" -> "b1"
                              [] OTHER -> None]
    /\ active_sessions =
           [s \in {SessionId(1)} |-> [user1 |-> "u2", user2 |-> "u1"]]
    /\ chat_sessions =
           [s \in {SessionId(1)} |->
               [user1_id |-> "u2", user2_id |-> "u1", status |-> "active",
                chat_type |-> "text"]]
    /\ chat_messages = <<>>
    /\ handled = 2
    /\ session_uuids = 1
    /\ relay_op = [NoRelayOp EXCEPT !.op = "send_done", !.conn = "b1",
                      !.type = "find_match",
                      !.sends = <<[to |-> "b1",
                                   msg |-> MatchedMsg(SessionId(1), "u1", "text")],
                                  [to |-> "a1",
                                   msg |-> MatchedMsg(SessionId(1), "u2", "text")]>>,
                      !.session_id = SessionId(1)]

\* the messages of a paired connection
NextChat ==
    \/ \E c \in ChatConns : TransportClose(c)
    \/ \E c \in ChatConns : RecvClosed(c)
    \/ \E c \in ChatConns, type \in {"offer", "answer", "ice-candidate"},
          partner_id \in MessagePartnerIds :
           RecvForward(c, type, partner_id, "sdp")
    \/ \E c \in ChatConns, session_id \in MessageSessionIds,
          partner_id \in MessagePartnerIds, content \in Contents :
           RecvChatMessage(c, session_id, partner_id, content)
    \/ \E c \in ChatConns :
           ModerationDone(c, ModerationReply(conn_locals[c].content))
    \/ \E c \in ChatConns : ChatInsertDone(c)
    \/ \E c \in ChatConns, type \in {"skip", "disconnect"},
          session_id \in MessageSessionIds,
          partner_id \in MessagePartnerIds :
           RecvSkip(c, type, session_id, partner_id)
    \/ \E c \in ChatConns : SkipUpdateDone(c)
    \/ \E c \in ChatConns, fails \in BOOLEAN : SendDone(c, fails)
    \/ \E c \in ChatConns, frame \in OtherFrames : RecvOther(c, frame)

SpecChat == InitChat /\ [][NextChat]_vars

\* the two connections of the session and one of a third participant
OutsiderConns == {"a1", "b1", "c1"}

\* a third participant connects next to a paired couple; all three send
\* signaling, chat and skip messages
NextOutsider ==
    \/ Connect("c1")
    \/ \E c \in OutsiderConns, type \in {"offer", "answer", "ice-candidate"},
          partner_id \in MessagePartnerIds :
           RecvForward(c, type, partner_id, "sdp")
    \/ \E c \in OutsiderConns, session_id \in MessageSessionIds,
          partner_id \in MessagePartnerIds, content \in Contents :
           RecvChatMessage(c, session_id, partner_id, content)
    \/ \E c \in OutsiderConns :
           ModerationDone(c, ModerationReply(conn_locals[c].content))
    \/ \E c \in OutsiderConns : ChatInsertDone(c)
    \/ \E c \in OutsiderConns, session_id \in MessageSessionIds,
          partner_id \in MessagePartnerIds :
           RecvSkip(c, "skip", session_id, partner_id)
    \/ \E c \in OutsiderConns : SkipUpdateDone(c)
    \/ \E c \in OutsiderConns, fails \in BOOLEAN : SendDone(c, fails)

SpecOutsider == InitChat /\ [][NextOutsider]_vars

\* get_client_id of the requests and connections of one browser: the HTTP
\* requests and the WebSocket connections of the model come from one client
ConnClient(c) == CHOOSE client \in Clients : TRUE

\* the connection of the client that logs in
GuardedConns == {"a1"}

\* a paired participant goes on sending while the failed logins of its client
\* pass the HTTP admission boundary and are reported
NextGuardedRelay ==
    \/ \E client \in Clients, reports \in BOOLEAN :
           Dispatch(client, <<"api", "auth", "login">>, reports)
    \/ \E client \in Clients : HandlerSuspicious(client)
    \/ \E c \in GuardedConns :
           RecvFindMatch(c, {"gaming", "music"}, FALSE, FALSE)
    \/ \E c \in GuardedConns : RecvForward(c, "offer", "u2", "sdp")
    \/ \E c \in GuardedConns :
           RecvChatMessage(c, SessionId(1), "u2", "hello")
    \/ \E c \in GuardedConns :
           ModerationDone(c, ModerationReply(conn_locals[c].content))
    \/ \E c \in GuardedConns : ChatInsertDone(c)
    \/ \E c \in GuardedConns : SendDone(c, FALSE)

SpecGuardedRelay == InitChat /\ [][NextGuardedRelay]_vars

\* two participants pair, chat and skip while the database may refuse a
\* write
NextSink ==
    \/ \E c \in PairConns : Connect(c)
    \/ \E c \in PairConns :
           RecvFindMatch(c, {"gaming", "music"}, FALSE, FALSE)
    \/ \E c \in PairConns : InsertDone(c)
    \/ \E c \in PairConns :
           InsertFailed(c, {"gaming", "music"}, FALSE, FALSE)
    \/ \E c \in PairConns, session_id \in MessageSessionIds,
          partner_id \in MessagePartnerIds, content \in Contents :
           RecvChatMessage(c, session_id, partner_id, content)
    \/ \E c \in PairConns :
           ModerationDone(c, ModerationReply(conn_locals[c].content))
    \/ \E c \in PairConns :
           ChatInsertFailed(c, ModerationReply(conn_locals[c].content))
    \/ \E c \in PairConns : ChatInsertDone(c)
    \/ \E c \in PairConns, type \in {"skip", "disconnect"},
          session_id \in MessageSessionIds,
          partner_id \in MessagePartnerIds :
           RecvSkip(c, type, session_id, partner_id)
    \/ \E c \in PairConns, type \in {"skip", "disconnect"},
          session_id \in MessageSessionIds,
          partner_id \in MessagePartnerIds :
           RecvSkipPersistFailed(c, type, session_id, partner_id)
    \/ \E c \in PairConns : SkipUpdateDone(c)
    \/ \E c \in PairConns : PersistFailed(c)
    \/ \E c \in PairConns : SendDone(c, FALSE)

SpecSink == Init /\ [][NextSink]_vars

\* a paired couple chats behind a moderation service that answers, fails
\* or answers garbage; a transport may close
NextModeration ==
    \/ \E c \in ChatConns : TransportClose(c)
    \/ \E c \in ChatConns : RecvClosed(c)
    \/ \E c \in ChatConns, session_id \in MessageSessionIds,
          partner_id \in MessagePartnerIds, content \in Contents :
           RecvChatMessage(c, session_id, partner_id, content)
    \/ \E c \in ChatConns, reply \in ServiceReplies : ModerationDone(c, reply)
    \/ \E c \in ChatConns : ChatInsertDone(c)
    \/ \E c \in ChatConns, fails \in BOOLEAN : SendDone(c, fails)

SpecModeration == InitChat /\ [][NextModeration]_vars

\* three participants, each on its own connection
WaitingConns == {"a1", "b1", "c1"}

\* the three ask for partners over their sockets, with interests and video
\* preferences that may have nothing in common, while session writes fail
NextWaiting ==
    \/ \E c \in WaitingConns : Connect(c)
    \/ \E c \in WaitingConns, interests \in CallerInterests,
          prefer_video \in BOOLEAN :
           RecvFindMatch(c, interests, prefer_video, FALSE)
    \/ \E c \in WaitingConns : InsertDone(c)
    \/ \E c \in WaitingConns, interests \in CallerInterests,
          prefer_video \in BOOLEAN :
           InsertFailed(c, interests, prefer_video, FALSE)
    \/ \E c \in WaitingConns : PersistFailed(c)
    \/ \E c \in WaitingConns : SendDone(c, FALSE)

SpecWaiting == Init /\ [][NextWaiting]_vars

---------------------------------------------------------------------------
(* Properties of the matchmaking queue *)

\* the queue entries of participant u
EntriesOf(u) == { i \in 1 .. Len(queue) : queue[i].user_id = u }

\* C1: the queue never holds two entries of one participant, whatever
\* add_to_queue, join-queue, remove_from_queue and find_match calls the
\* participants have interleaved; an enqueue of a queued participant
\* replaces its entry.
C1_OneEntryPerParticipant ==
    \A u \in Users : Cardinality(EntriesOf(u)) <= 1

\* an enqueue has just replaced the entry of the participant at the head of
\* a full queue
C1_Witness ==
    /\ queue_op.op \in {"add_to_queue", "join_queue"}
    /\ Len(queue) = Cardinality(Users)
    /\ queue[1].user_id = queue_op.user_id

\* C2: find_match never returns the querying participant: it returns None or
\* a different participant that has an entry in the queue it scanned.
C2_NeverMatchesSelf ==
    queue_op.op = "find_match" =>
        /\ queue_op.match # queue_op.user_id
        /\ queue_op.match # None => EntriesOf(queue_op.match) # {}

\* find_match returned a partner out of a queue of three
C2_Witness ==
    /\ queue_op.op = "find_match"
    /\ queue_op.match \in Users
    /\ Len(queue) = Cardinality(Users)

\* the entry of participant u
C_EntryOf(u) == queue[CHOOSE i \in 1 .. Len(queue) : queue[i].user_id = u]

\* the claimed gender filter: a premium side's preference that the other
\* side's gender does not meet
C_PreferenceUnmet(a, b) ==
    a.is_premium /\ a.gender_preference # None /\ b.gender # a.gender_preference

\* the entries other than u's that pass both gender filters
C_Eligible(u) ==
    { i \in 1 .. Len(queue) :
        /\ queue[i].user_id # u
        /\ ~C_PreferenceUnmet(C_EntryOf(u), queue[i])
        /\ ~C_PreferenceUnmet(queue[i], C_EntryOf(u)) }

\* C3: a queued participant gets a partner whenever some other entry passes
\* both gender filters, also when the best score is 0; None is returned only
\* when the caller is not queued, nobody else is, or every other entry is
\* excluded by a gender filter.  Between two entries with disjoint
\* interests, neither premium nor on a trial nor with a gender preference,
\* the score is 5 for equal video preferences and 0 otherwise.
C3_ZeroScoreStillMatches ==
    queue_op.op = "find_match" =>
        LET u == queue_op.user_id IN
        /\ (queue_op.match # None) <=>
               (EntriesOf(u) # {} /\ C_Eligible(u) # {})
        /\ \A c \in Users \ {u} :
              (/\ EntriesOf(u) # {} /\ EntriesOf(c) # {} /\ Len(queue) = 2
               /\ C_EntryOf(u).interests \cap C_EntryOf(c).interests = {}
               /\ ~C_EntryOf(u).is_premium /\ ~C_EntryOf(c).is_premium
               /\ ~C_EntryOf(u).is_trial /\ ~C_EntryOf(c).is_trial
               /\ C_EntryOf(u).gender_preference = None
               /\ C_EntryOf(c).gender_preference = None)
              => /\ queue_op.match = c
                 /\ queue_op.score =
                       IF C_EntryOf(u).prefer_video = C_EntryOf(c).prefer_video
                       THEN 5 ELSE 0

\* the only candidate scored 0 and was returned
C3_Witness ==
    /\ queue_op.op = "find_match"
    /\ queue_op.match \in Users
    /\ queue_op.score = 0
    /\ Len(queue) = 2

\* C4: find_match never returns a candidate that fails a gender filter in
\* either direction, whatever its score.
C4_GenderFilterBothWays ==
    (queue_op.op = "find_match" /\ queue_op.match # None) =>
        LET p == C_EntryOf(queue_op.user_id)
            c == C_EntryOf(queue_op.match)
        IN  /\ ~(p.is_premium /\ p.gender_preference # None
                    /\ c.gender # p.gender_preference)
            /\ ~(c.is_premium /\ c.gender_preference # None
                    /\ p.gender # c.gender_preference)

\* the candidate's own preference ruled the caller out although they share
\* an interest and the video preference and the candidate is premium
C4_Witness ==
    /\ queue_op.op = "find_match"
    /\ queue_op.match = None
    /\ Len(queue) = 2
    /\ EntriesOf(queue_op.user_id) # {}
    /\ \E i \in 1 .. Len(queue) :
          /\ queue[i].user_id # queue_op.user_id
          /\ queue[i].is_premium
          /\ queue[i].gender_preference = "female"
          /\ C_EntryOf(queue_op.user_id).gender = "male"
          /\ ~C_EntryOf(queue_op.user_id).is_premium
          /\ queue[i].interests \cap C_EntryOf(queue_op.user_id).interests # {}
          /\ queue[i].prefer_video = C_EntryOf(queue_op.user_id).prefer_video

\* C5: the gender preference of a non-premium entry excludes nobody, on
\* either side of find_match: a candidate is left out only because of a
\* premium side's preference; and join-queue for a caller that is anonymous
\* or not premium stores no preference and answers
\* gender_filter_active = false.
C5_NonPremiumPreferenceIgnored ==
    /\ queue_op.op = "find_match" =>
          \A i \in 1 .. Len(queue) :
             (/\ EntriesOf(queue_op.user_id) # {}
              /\ queue[i].user_id # queue_op.user_id
              /\ ~(C_EntryOf(queue_op.user_id).is_premium
                      /\ queue[i].gender
                            # C_EntryOf(queue_op.user_id).gender_preference)
              /\ ~(queue[i].is_premium
                      /\ C_EntryOf(queue_op.user_id).gender
                            # queue[i].gender_preference))
             => queue_op.match # None
    /\ queue_op.op = "join_queue" =>
          LET profile == Profile(queue_op.user_id) IN
          (profile.is_anonymous \/ ~profile.has_doc \/ ~profile.is_premium)
          => /\ ~queue_op.gender_filter_active
             /\ ~queue_op.is_premium
             /\ C_EntryOf(queue_op.user_id).gender_preference = None
             /\ ~C_EntryOf(queue_op.user_id).is_premium

\* two non-premium entries, each with a preference the other does not meet,
\* were matched
C5_Witness ==
    /\ queue_op.op = "find_match"
    /\ queue_op.match \in Users
    /\ ~C_EntryOf(queue_op.user_id).is_premium
    /\ ~C_EntryOf(queue_op.match).is_premium
    /\ C_EntryOf(queue_op.user_id).gender_preference = "female"
    /\ C_EntryOf(queue_op.match).gender = "male"
    /\ C_EntryOf(queue_op.match).gender_preference = "female"
    /\ C_EntryOf(queue_op.user_id).gender = "male"

\* the claimed score of the entry at position i for the caller u
C_Score(u, i) ==
      10 * Cardinality(C_EntryOf(u).interests \cap queue[i].interests)
    + (IF C_EntryOf(u).prefer_video = queue[i].prefer_video THEN 5 ELSE 0)
    + (IF queue[i].is_premium \/ queue[i].is_trial THEN 3 ELSE 0)

\* the eligible positions whose score no eligible position exceeds
C_Best(u) ==
    { i \in C_Eligible(u) :
        \A j \in C_Eligible(u) : C_Score(u, i) >= C_Score(u, j) }

\* C23: for a queued caller with at least one candidate that passes both
\* gender filters, find_match returns a candidate of maximal score, the
\* score being 10 per common interest, plus 5 for equal video preferences,
\* plus 3 if the candidate is premium or on a trial; nothing in it depends
\* on the caller's own premium or trial flag.
C23_ReturnsMaximalScore ==
    (/\ queue_op.op = "find_match"
     /\ EntriesOf(queue_op.user_id) # {}
     /\ C_Eligible(queue_op.user_id) # {})
    => \E i \in C_Best(queue_op.user_id) :
          /\ queue[i].user_id = queue_op.match
          /\ queue_op.score = C_Score(queue_op.user_id, i)

\* of two eligible candidates the later one scored higher and was returned,
\* for a caller that is itself on a trial
C23_Witness ==
    /\ queue_op.op = "find_match"
    /\ Len(queue) = 3
    /\ EntriesOf(queue_op.user_id) # {}
    /\ C_EntryOf(queue_op.user_id).is_trial
    /\ \E i, j \in C_Eligible(queue_op.user_id) :
          /\ i < j
          /\ C_Score(queue_op.user_id, i) < C_Score(queue_op.user_id, j)
          /\ queue[j].user_id = queue_op.match
          /\ ~queue[j].is_premium /\ ~queue[j].is_trial

\* C24: of the eligible candidates with the maximal score find_match returns
\* the one that is first in the queue's order; and an enqueue of a queued
\* participant leaves the order of the participants as it was.
C24_TieKeepsFirstInOrder ==
    /\ []((/\ queue_op.op = "find_match"
           /\ EntriesOf(queue_op.user_id) # {}
           /\ C_Eligible(queue_op.user_id) # {})
          => \E i \in C_Best(queue_op.user_id) :
                /\ queue[i].user_id = queue_op.match
                /\ \A j \in C_Best(queue_op.user_id) : i <= j)
    /\ [][(/\ queue_op'.op \in {"add_to_queue", "join_queue"}
           /\ EntriesOf(queue_op'.user_id) # {})
          => /\ Len(queue') = Len(queue)
             /\ \A i \in 1 .. Len(queue) : queue'[i].user_id = queue[i].user_id
      ]_vars

\* two candidates tie at the maximal score and the first was returned
C24_Witness ==
    /\ queue_op.op = "find_match"
    /\ Len(queue) = 3
    /\ EntriesOf(queue_op.user_id) # {}
    /\ Cardinality(C_Best(queue_op.user_id)) = 2
    /\ \E i \in C_Best(queue_op.user_id) :
          /\ queue[i].user_id = queue_op.match
          /\ \E j \in C_Best(queue_op.user_id) : i < j

\* C25: find_match changes nothing in the queue: the entries, their contents
\* and their order are the same after the call, whether it returned a
\* participant or None.
C25_FindMatchLeavesQueue ==
    [][queue_op'.op = "find_match" => queue' = queue]_vars

\* find_match returned a partner and both are still queued
C25_Witness ==
    /\ queue_op.op = "find_match"
    /\ queue_op.match \in Users
    /\ Len(queue) = 2
    /\ EntriesOf(queue_op.user_id) # {}
    /\ EntriesOf(queue_op.match) # {}

---------------------------------------------------------------------------
(* Properties of the signaling relay *)

\* in this step connection c comes to the end of the handling of the
\* message relay_op'.type, in one piece or resumed after an await
C_Finishes(c) ==
    /\ relay_op'.conn = c
    /\ handled' = handled + 1 \/ conn_pc[c] \in AwaitPcs
    /\ conn_pc'[c] \notin AwaitPcs

\* C11: a find_match that finds no eligible entry leaves the caller queued
\* and answers with exactly one message, a waiting whose queue_size is the
\* number of queue entries, the caller's included; into an empty queue the
\* answer is queue_size = 1.  Nothing more is sent when the send returns.
C11_MissAnswersWaitingWithQueueSize ==
    [][\A c \in Conns :
          /\ (/\ handled' = handled + 1
              /\ relay_op'.op = "message" /\ relay_op'.type = "find_match"
              /\ relay_op'.conn = c
              /\ conn_pc'[c] # "insert")
             => /\ conn_pc'[c] = "send"
                /\ Len(relay_op'.sends) = 1
                /\ relay_op'.sends[1].to = c
                /\ relay_op'.sends[1].msg.type = "waiting"
                /\ relay_op'.sends[1].msg.queue_size = Len(queue')
                /\ \E i \in 1 .. Len(queue') : queue'[i].user_id = ConnUser(c)
                /\ queue = <<>> => relay_op'.sends[1].msg.queue_size = 1
                /\ (\E i \in 1 .. Len(queue) : queue[i].user_id # ConnUser(c))
                       => relay_op'.sends[1].msg.queue_size >= 2
          /\ (/\ conn_pc[c] = "send"
              /\ conn_locals[c].stage = "waiting"
              /\ relay_op'.conn = c
              /\ conn_pc'[c] # "send")
             => /\ relay_op'.sends = conn_locals[c].sent
                /\ conn_open[c] => /\ conn_pc'[c] = "recv"
                                   /\ Len(relay_op'.sends) = 1
                                   /\ queue' = queue
      ]_vars

\* a miss next to an entry whose gender preference rules the caller out:
\* the waiting message counted both entries, and the caller receives again
C11_Witness ==
    \E c \in Conns :
        /\ relay_op.op = "send_done" /\ relay_op.type = "find_match"
        /\ relay_op.conn = c
        /\ conn_pc[c] = "recv"
        /\ Len(queue) = 2
        /\ Len(relay_op.sends) = 1
        /\ relay_op.sends[1].msg.type = "waiting"
        /\ relay_op.sends[1].msg.queue_size = 2

\* the session documents of the pair user_id, match_id that are active
C_PairSessions(sessions, user_id, match_id) ==
    { s \in DOMAIN sessions :
        /\ sessions[s].status = "active"
        /\ {sessions[s].user1_id, sessions[s].user2_id} = {user_id, match_id} }

\* C12 (as claimed): when a find_match hits a connected participant waiting
\* in the queue, exactly one session is created for the pair, each of the
\* two gets one matched message, with the same session_id and the other as
\* partner_id, and when the handling is over neither of the two is queued.
\* The hit is acted on after the await of the session write, with both
\* entries still queued.
C12_HitPairsBothOnce ==
    [][\A c \in Conns :
        /\ (/\ conn_pc[c] = "recv" /\ conn_pc'[c] = "insert"
            /\ ~conn_locals'[c].db_fails
            /\ Registered(websocket_connections, conn_locals'[c].match_id)
            /\ conn_open[websocket_connections[conn_locals'[c].match_id]])
           => /\ DOMAIN chat_sessions' \ DOMAIN chat_sessions
                     = {conn_locals'[c].session_id}
              /\ C_PairSessions(chat_sessions', ConnUser(c),
                                conn_locals'[c].match_id)
                     = {conn_locals'[c].session_id}
        /\ (/\ C_Finishes(c)
            /\ relay_op'.type = "find_match"
            /\ conn_locals[c].match_id # None
            /\ conn_open[c]
            /\ Registered(websocket_connections, conn_locals[c].match_id)
            /\ conn_open[websocket_connections[conn_locals[c].match_id]])
           => LET user_id    == ConnUser(c)
                  match_id   == conn_locals[c].match_id
                  session_id == conn_locals[c].session_id
                  chat_type  == ChatType(conn_locals[c].prefer_video)
              IN  /\ relay_op'.sends =
                        <<[to |-> c,
                           msg |-> MatchedMsg(session_id, match_id, chat_type)],
                          [to |-> websocket_connections[match_id],
                           msg |-> MatchedMsg(session_id, user_id, chat_type)]>>
                  /\ ~InQueue(queue', user_id)
                  /\ ~InQueue(queue', match_id)
      ]_vars

\* C20 (as claimed): the trial flag of a queue entry is set only for a
\* participant whose profile has an active trial, and an anonymous
\* participant's entry is neither premium nor on a trial, whatever the
\* message said.  The handler passes the message's use_trial as is_trial.
C20_EntitlementsFromProfile ==
    \A i \in 1 .. Len(queue) :
        LET profile == Profile(queue[i].user_id) IN
        /\ (profile.is_anonymous \/ ~profile.trial_active)
              => ~queue[i].is_trial
        /\ profile.is_anonymous => ~queue[i].is_premium

C_Matched(c, k, s) ==
    /\ s \in DOMAIN active_sessions
    /\ {active_sessions[s].user1, active_sessions[s].user2}
          = {ConnUser(c), ConnUser(k)}
    /\ ConnUser(c) # ConnUser(k)
    /\ websocket_connections[ConnUser(c)] = c
    /\ websocket_connections[ConnUser(k)] = k
    /\ conn_open[c] /\ conn_open[k]
    /\ conn_pc[c] \in {"recv", "update"} /\ conn_pc[k] = "recv"

\* C14 (as claimed): when one of two matched participants sends skip, the
\* session is ended and no longer in active_sessions, the partner gets
\* partner_disconnected and the sender gets ready_to_match.  The handler
\* ends the session and tells the partner only as far as the message names
\* them.
C14_SkipEndsTheSession ==
    [][\A c, k \in Conns, s \in DOMAIN active_sessions :
          /\ (/\ C_Matched(c, k, s)
              /\ conn_pc[c] = "recv"
              /\ handled' = handled + 1
              /\ relay_op'.conn = c /\ relay_op'.type = "skip")
             => /\ chat_sessions'[s].status = "ended"
                /\ conn_pc'[c] = "update"
          /\ (/\ C_Matched(c, k, s)
              /\ conn_pc[c] = "update"
              /\ relay_op'.op = "update_done"
              /\ relay_op'.conn = c /\ relay_op'.type = "skip")
             => /\ s \notin DOMAIN active_sessions'
                /\ \E i \in 1 .. Len(relay_op'.sends) :
                      /\ relay_op'.sends[i].to = k
                      /\ relay_op'.sends[i].msg.type = "partner_disconnected"
          /\ (/\ C_Finishes(c)
              /\ conn_pc[c] = "send"
              /\ relay_op'.type = "skip"
              /\ conn_open[c])
             => \E i \in 1 .. Len(relay_op'.sends) :
                   /\ relay_op'.sends[i].to = c
                   /\ relay_op'.sends[i].msg.type = "ready_to_match"
      ]_vars

\* C18 (as claimed): a frame that is not decodable, has no type, or has an
\* unknown type is ignored: nothing is sent, queue, registry and sessions
\* stay as they are, and the loop waits for the next message.  The
\* exceptions of json.loads and message["type"] leave the loop.
C18_UnhandledFramesAreIgnored ==
    [][\A c \in Conns :
          (/\ handled' = handled + 1
           /\ relay_op'.conn = c
           /\ relay_op'.type \notin KnownTypes)
          => /\ relay_op'.sends = <<>>
             /\ queue' = queue
             /\ websocket_connections' = websocket_connections
             /\ active_sessions' = active_sessions
             /\ chat_sessions' = chat_sessions
             /\ conn_pc'[c] = "recv"
      ]_vars

\* C19 (as claimed): forwarding to a partner that has no handle, or whose
\* channel is broken, never ends the sender's loop: the sender stays
\* registered and goes on receiving.  A send_text that raises leaves the
\* loop through except Exception.
C19_DeliveryFailureIsSwallowed ==
    [][\A c \in Conns :
          (/\ C_Finishes(c)
           /\ relay_op'.type \in {"offer", "answer", "ice-candidate",
                                   "chat_message"})
          => /\ conn_pc'[c] = "recv"
             /\ websocket_connections'[ConnUser(c)]
                   = websocket_connections[ConnUser(c)]
      ]_vars

\* the coroutine of connection c ends in this step
C_LoopEnds(c) == conn_pc[c] \in {"recv"} \cup AwaitPcs /\ conn_pc'[c] = "closed"

\* C15 (as claimed): the teardown of a connection that another connection of
\* the same participant has superseded leaves the registry entry of the
\* newer connection in place.  The teardown deletes whatever is registered
\* for the user.
C15_SupersededTeardownKeepsHandle ==
    [][\A c, k \in Conns :
          (/\ C_LoopEnds(c)
           /\ k # c /\ ConnUser(k) = ConnUser(c)
           /\ conn_pc[k] \in {"recv"} \cup AwaitPcs
           /\ websocket_connections[ConnUser(c)] = k)
          => websocket_connections'[ConnUser(c)] = k
      ]_vars

\* C16 (as claimed): a connection whose transport has closed always comes
\* to its teardown, whatever its handler was doing; when the loop of a
\* connection ends, for whatever reason, its participant has no queue entry
\* and the registry does not hold that connection; so every queue entry
\* belongs to a participant with a connection whose loop is still running.
\* A handler suspended in a send_text that never returns is never resumed:
\* no send has a timeout.
C16_TeardownAlwaysRuns ==
    /\ [][\A c \in Conns :
            C_LoopEnds(c)
            => /\ \A i \in 1 .. Len(queue') : queue'[i].user_id # ConnUser(c)
               /\ websocket_connections'[ConnUser(c)] # c
        ]_vars
    /\ [](\A i \in 1 .. Len(queue) :
             \E c \in Conns : /\ ConnUser(c) = queue[i].user_id
                               /\ conn_pc[c] \in {"recv"} \cup AwaitPcs)
    /\ \A c \in RegistryConns :
          (conn_pc[c] \in {"recv"} \cup AwaitPcs /\ ~conn_open[c])
              ~> (conn_pc[c] = "closed")

\* C17 (as claimed): when the transport of a matched participant closes, its
\* teardown sends partner_disconnected to the partner and ends the session.
\* The teardown only unregisters and dequeues.
C17_CloseNotifiesPartner ==
    [][\A c, k \in Conns, s \in DOMAIN active_sessions :
          (/\ C_LoopEnds(c)
           /\ relay_op'.op = "teardown" /\ relay_op'.conn = c
           /\ {active_sessions[s].user1, active_sessions[s].user2}
                 = {ConnUser(c), ConnUser(k)}
           /\ ConnUser(c) # ConnUser(k)
           /\ websocket_connections[ConnUser(c)] = c
           /\ websocket_connections[ConnUser(k)] = k
           /\ conn_open[k] /\ conn_pc[k] = "recv")
          => /\ \E i \in 1 .. Len(relay_op'.sends) :
                    /\ relay_op'.sends[i].to = k
                    /\ relay_op'.sends[i].msg.type = "partner_disconnected"
             /\ s \notin DOMAIN active_sessions'
             /\ chat_sessions'[s].status = "ended"
      ]_vars

\* C21 (as claimed): an offer, answer, ice-candidate or chat_message of a
\* participant is sent to another participant only if the two are the
\* members of a session in active_sessions.  The branches deliver to
\* whatever registered partner_id the message names.
C21_ForwardOnlyWithinSession ==
    [][\A c \in Conns :
          (/\ relay_op'.conn = c
           /\ relay_op'.type \in {"offer", "answer", "ice-candidate",
                                   "chat_message"}
           /\ Len(relay_op'.sends) > Len(conn_locals[c].sent))
          => LET sent == relay_op'.sends[Len(relay_op'.sends)]
             IN  (/\ sent.msg.type
                       \in {"offer", "answer", "ice-candidate", "chat_message"}
                  /\ ConnUser(sent.to) # ConnUser(c))
                 => \E s \in DOMAIN active_sessions :
                       {active_sessions[s].user1, active_sessions[s].user2}
                         = {ConnUser(c), ConnUser(sent.to)}
      ]_vars

\* C22 (as claimed): a find_match, offer, answer, ice-candidate or
\* chat_message that arrives over a connection of a client whose block has
\* not expired is not processed: nothing is sent, queued or persisted.  The
\* endpoint never calls rate_limiter.
C22_BlockedClientIsNotRelayed ==
    [][\A c \in Conns :
          (/\ handled' = handled + 1
           /\ relay_op'.conn = c
           /\ relay_op'.type \in {"find_match", "offer", "answer",
                                   "ice-candidate", "chat_message"}
           /\ ConnClient(c) \in DOMAIN blocked_ips
           /\ now < blocked_ips[ConnClient(c)])
          => /\ relay_op'.sends = <<>>
             /\ queue' = queue
             /\ chat_messages' = chat_messages
      ]_vars

\* C26 (as claimed): when the partner that find_match returned to a
\* connection has left the queue before the connection acts on the result,
\* the connection creates no session naming that partner and receives no
\* matched message naming it.  The endpoint never looks at the queue again
\* after find_match returned.
C26_StaleMatchIsAMiss ==
    [][\A c \in Conns :
          (/\ conn_pc[c] = "insert"
           /\ conn_pc'[c] # "insert"
           /\ ~InQueue(queue, conn_locals[c].match_id))
          => /\ \A s \in DOMAIN active_sessions' \ DOMAIN active_sessions :
                   active_sessions'[s].user2 # conn_locals[c].match_id
             /\ \A i \in 1 .. Len(relay_op'.sends) :
                   ~(/\ relay_op'.sends[i].to = c
                     /\ relay_op'.sends[i].msg.type = "matched"
                     /\ relay_op'.sends[i].msg.partner_id
                            = conn_locals[c].match_id)
      ]_vars

\* C27 (as claimed): a failed write of a session record, of a session-end
\* record or of a chat message record does not end the connection's loop;
\* after the failed session write the two matched participants are dequeued
\* and the caller receives matched; after the failed message write the chat
\* message is sent to the registered partner.  No write in the endpoint is
\* guarded: the driver's exception leaves the loop.
C27_PersistenceFailureIsHarmless ==
    [][\A c \in Conns :
          (/\ conn_pc[c] \in DbPcs
           /\ conn_locals[c].db_fails
           /\ relay_op'.conn = c
           /\ conn_pc'[c] # conn_pc[c])
          => /\ conn_pc'[c] # "closed"
             /\ websocket_connections'[ConnUser(c)]
                   = websocket_connections[ConnUser(c)]
             /\ conn_locals[c].type = "find_match"
                   => /\ ~InQueue(queue', ConnUser(c))
                      /\ ~InQueue(queue', conn_locals[c].match_id)
                      /\ \E i \in 1 .. Len(relay_op'.sends) :
                            /\ relay_op'.sends[i].to = c
                            /\ relay_op'.sends[i].msg.type = "matched"
             /\ (/\ conn_locals[c].type = "chat_message"
                 /\ conn_locals[c].partner_id # None
                 /\ Registered(websocket_connections,
                               conn_locals[c].partner_id))
                   => \E i \in 1 .. Len(relay_op'.sends) :
                         /\ relay_op'.sends[i].to
                                = websocket_connections[
                                      conn_locals[c].partner_id]
                         /\ relay_op'.sends[i].msg.type = "chat_message"
      ]_vars

\* the reply of the moderation service is no usable verdict
C_NoVerdict(reply) == reply.raises \/ ~reply.is_json \/ ~reply.has_fields

\* the partner the suspended chat_message of c names is registered on an
\* open channel
C_PartnerReachable(c) ==
    /\ conn_locals[c].partner_id # None
    /\ Registered(websocket_connections, conn_locals[c].partner_id)
    /\ conn_open[websocket_connections[conn_locals[c].partner_id]]

\* the chat_message that c's suspended handler forwards
C_Forwarded(c, is_warned) ==
    [to |-> websocket_connections[conn_locals[c].partner_id],
     msg |-> [OutMsg EXCEPT !.type = "chat_message",
                            !.content = conn_locals[c].content,
                            !.from = ConnUser(c),
                            !.is_warned = is_warned]]

C30_DisconnectTearsDown ==
    [][\A c \in Conns :
          (C_Finishes(c) /\ relay_op'.type = "disconnect")
          => /\ conn_pc'[c] = "closed"
             /\ websocket_connections'[ConnUser(c)] # c
             /\ ~InQueue(queue', ConnUser(c))
      ]_vars

\* user_id is a member of an active session
C_InSession(active, user_id) ==
    \E s \in DOMAIN active :
        user_id \in {active[s].user1, active[s].user2}

\* C31 (as claimed): a skip that is answered with ready_to_match leaves the
\* caller Idle: registered, without a queue entry and in no active session.
\* The skip branch never touches the queue, and drops only the session the
\* message names.
C31_SkipLeavesCallerIdle ==
    [][\A c \in Conns :
          (/\ C_Finishes(c)
           /\ relay_op'.type = "skip"
           /\ \E i \in 1 .. Len(relay_op'.sends) :
                 /\ relay_op'.sends[i].to = c
                 /\ relay_op'.sends[i].msg.type = "ready_to_match")
          => /\ websocket_connections'[ConnUser(c)] = c
             /\ ~InQueue(queue', ConnUser(c))
             /\ ~C_InSession(active_sessions', ConnUser(c))
      ]_vars

\* C34 (as claimed): the matched messages of a hit carry "video" when one
\* of the two paired queue entries prefers video and "text" when neither
\* does.  The endpoint takes prefer_video from the caller's message alone.
C34_ChatTypeFromBothPreferences ==
    [][\A c \in Conns :
          (/\ conn_pc[c] = "insert"
           /\ relay_op'.op = "insert_done"
           /\ relay_op'.conn = c
           /\ InQueue(queue, ConnUser(c))
           /\ InQueue(queue, conn_locals[c].match_id))
          => \A i \in 1 .. Len(relay_op'.sends) :
                relay_op'.sends[i].msg.type = "matched"
                => relay_op'.sends[i].msg.chat_type =
                      (IF \/ queue[IndexOf(queue, ConnUser(c))].prefer_video
                          \/ queue[IndexOf(queue,
                                 conn_locals[c].match_id)].prefer_video
                       THEN "video" ELSE "text")
      ]_vars

\* the handling of an offer, answer or ice-candidate of c left everything
\* but the forwarded message as it was
C_ForwardedOnly(c, type) ==
    /\ queue' = queue
    /\ websocket_connections' = websocket_connections
    /\ active_sessions' = active_sessions
    /\ \A i \in 1 .. Len(relay_op'.sends) :
          /\ relay_op'.sends[i].to # c
          /\ relay_op'.sends[i].msg =
                 [OutMsg EXCEPT !.type = type, !.data = "sdp",
                                !.from = ConnUser(c)]

\* C35 (as claimed): handling an offer, answer or ice-candidate that names
\* another participant sends nothing to the sender, delivers the data as it
\* came with the sender's id as from, and leaves the queue, the connection
\* registry and the active sessions as they were.  A send that raises on the
\* partner's dead transport runs the sender's teardown.
C35_ForwardingChangesNoState ==
    [][\A c \in Conns, type \in {"offer", "answer", "ice-candidate"} :
          /\ \A partner_id \in Users :
                (/\ partner_id # ConnUser(c)
                 /\ RecvForward(c, type, partner_id, "sdp"))
                => C_ForwardedOnly(c, type)
          /\ (/\ conn_pc[c] = "send"
              /\ conn_locals[c].type = type
              /\ conn_locals[c].partner_id # ConnUser(c)
              /\ relay_op'.conn = c
              /\ conn_pc'[c] # "send")
             => C_ForwardedOnly(c, type)
      ]_vars

\* the active sessions user_id is a member of
C_SessionsOf(user_id) ==
    { s \in DOMAIN active_sessions :
        user_id \in {active_sessions[s].user1, active_sessions[s].user2} }

\* C36 (as claimed): however the find_match handling of the connections
\* interleaves, no participant is a member of two active sessions at once.
\* A hit is acted on after the await of the session write without looking
\* at the queue or at active_sessions again.
C36_AtMostOneActiveSession ==
    \A u \in Users : Cardinality(C_SessionsOf(u)) <= 1

\* C37 (as claimed): a member of an active session has no queue entry.
\* Neither the find_match branch nor join_queue looks at active_sessions
\* before it enqueues.
C37_MatchedIsNotQueued ==
    \A u \in Users : C_SessionsOf(u) # {} => ~InQueue(queue, u)

\* user_id is connected and its coroutine is in no find_match hit
C_Connected(user_id) ==
    /\ Registered(websocket_connections, user_id)
    /\ conn_pc[websocket_connections[user_id]] \in {"recv", "send"}
    /\ conn_open[websocket_connections[user_id]]

\* no find_match hit is between its find and the end of its handling
C_Quiescent ==
    \A c \in Conns : conn_pc[c] \in AwaitPcs => conn_locals[c].match_id = None

\* C39 (as claimed): in a quiescent state no two connected participants that
\* entered the queue through find_match and pass each other's gender filters
\* are both waiting in it; and a find_match caller that finds such a
\* participant waiting ends up paired.  A session write that raises ends the
\* caller's connection instead.
C39_NoTwoCompatibleWaiting ==
    /\ [](C_Quiescent =>
            \A i, j \in 1 .. Len(queue) :
                (/\ i # j
                 /\ C_Connected(queue[i].user_id)
                 /\ C_Connected(queue[j].user_id))
                => \/ GenderExcluded(queue[i], queue[j])
                   \/ GenderExcluded(queue[j], queue[i]))
    /\ [][\A c \in Conns :
             (/\ conn_pc[c] = "insert"
              /\ relay_op'.conn = c
              /\ conn_pc'[c] # "insert")
             => C_InSession(active_sessions', ConnUser(c))
       ]_vars

---------------------------------------------------------------------------
(* Properties of the rate guard *)

\* the last operation was a check_rate_limit call of c that returned False
DeniedCheck(c) ==
    /\ rate_op.op = "check_rate_limit"
    /\ rate_op.client_id = c
    /\ ~rate_op.result

\* C6: starting from score 0 and without any record_suspicious_activity
\* call, a client has no block while it has at most four denied
\* check_rate_limit calls behind it, and right after its fifth denied call
\* its block expires exactly 600 seconds after the time of that call.
C6_FifthDenialBlocks600 ==
    \A c \in Clients :
        ~suspicious_seen[c] =>
            /\ denied_calls[c] <= 4 => c \notin DOMAIN blocked_ips
            /\ (DeniedCheck(c) /\ denied_calls[c] = 5) =>
                   (c \in DOMAIN blocked_ips /\ blocked_ips[c] = now + 600)

C6_Witness ==
    \E c \in Clients :
        /\ DeniedCheck(c)
        /\ ~suspicious_seen[c]
        /\ denied_calls[c] = 5
        /\ abuse_scores[c] = 10
        /\ c \in DOMAIN blocked_ips

\* C7 (as claimed): every operation leaves every stored abuse score below 10,
\* a denied check_rate_limit that takes the score to 10 or more resets it to
\* 0 and blocks for 3600 seconds, and a score only ever decreases at such a
\* reset.  The code does this in record_suspicious_activity only.
C7_ScoreBelowTenAfterEveryOperation ==
    [][\A c \in Clients :
          /\ abuse_scores'[c] < 20
          /\ (rate_op'.op = "check_rate_limit" /\ ~rate_op'.result
                  /\ abuse_scores[c] + 2 >= 20) =>
                 (/\ abuse_scores'[c] = 0
                  /\ c \in DOMAIN blocked_ips'
                  /\ blocked_ips'[c] = now + 3600)
          /\ abuse_scores'[c] < abuse_scores[c] =>
                 (/\ abuse_scores'[c] = 0
                  /\ c \in DOMAIN blocked_ips'
                  /\ blocked_ips'[c] = now + 3600)]_vars

\* C8: is_blocked returns true iff a block expiry is stored for the client and
\* the current time is strictly before it; a stored expiry that the current
\* time has reached is removed by the call, any other call leaves
\* blocked_ips alone.
C8_IsBlockedLazyExpiry ==
    [][rate_op'.op = "is_blocked" =>
          LET c == rate_op'.client_id
              stored == c \in DOMAIN blocked_ips
          IN  /\ rate_op'.result = (stored /\ now < blocked_ips[c])
              /\ (stored /\ now >= blocked_ips[c]) =>
                     (/\ c \notin DOMAIN blocked_ips'
                      /\ \A x \in DOMAIN blocked_ips' :
                             x \in DOMAIN blocked_ips /\ blocked_ips'[x] = blocked_ips[x])
              /\ ~(stored /\ now >= blocked_ips[c]) => blocked_ips' = blocked_ips
      ]_vars

\* a block was set for c (five denied calls, nothing else) and the last
\* is_blocked call found it expired, removed it and returned False
C8_Witness ==
    \E c \in Clients :
        /\ rate_op.op = "is_blocked" /\ rate_op.client_id = c /\ ~rate_op.result
        /\ ~suspicious_seen[c] /\ denied_calls[c] >= 5
        /\ c \notin DOMAIN blocked_ips

\* C9 (as claimed): while the block of a client has not expired no request of
\* that client is admitted: no HTTP request is passed on to its handler, and
\* no message of its WebSocket connections is handled.  Only HTTP requests
\* pass through dispatch; the WebSocket endpoint never asks the limiter.
C9_NoRequestAdmittedWhileBlocked ==
    [][\A client \in Clients :
          (client \in DOMAIN blocked_ips /\ now < blocked_ips[client])
          => /\ \A path \in Paths, reports \in BOOLEAN :
                   Dispatch(client, path, reports) => ~rate_op'.result
             /\ \A c \in Conns :
                   ConnClient(c) = client
                   => ~(handled' = handled + 1 /\ relay_op'.conn = c)
      ]_vars

\* the limit the claim gives a path by the class of its route: the routes
\* under /api/auth/, /api/chat/ and /api/admin/, and every other path
C10_ClaimedLimit(path) ==
    IF Len(path) > 2 /\ path[2] = "auth" THEN 20
    ELSE IF Len(path) > 2 /\ path[2] = "chat" THEN 100
    ELSE IF Len(path) > 2 /\ path[2] = "admin" THEN 200
    ELSE 60

\* C10 (as claimed): a request that reaches check_rate_limit is admitted, and
\* the current time recorded, iff fewer than `limit` timestamps newer than
\* now - 60 remain, where the limit is 20 on authentication paths, 100 on
\* chat paths, 200 on administrative paths and 60 elsewhere.  The code
\* picks the limit by substring, "/auth/" first, so an administrative path
\* that contains "/auth/" is limited to 20.
C10_LimitPerWindow ==
    [][\A c \in Clients, path \in Paths :
          (/\ rate_op'.op = "dispatch"
           /\ rate_op'.outcome \in {"handler", "rate_limited"}
           /\ Dispatch(c, path, FALSE))
          => LET limit == C10_ClaimedLimit(path)
                 kept  == SelectSeq(requests[c], LAMBDA ts : ~(ts <= now - 60))
             IN  /\ rate_op'.result = (Len(kept) < limit)
                 /\ requests'[c] = IF Len(kept) < limit
                                   THEN Append(kept, now) ELSE kept
      ]_vars

\* C33: a request that dispatch rejects because its client is blocked is not
\* passed to a handler and changes nothing the rate limiter stores: the
\* timestamps, the abuse scores and the block expiries after it are those
\* before it.
C33_BlockedRejectionChangesNothing ==
    [][\A c \in Clients :
          (/\ rate_op'.op = "dispatch"
           /\ rate_op'.client_id = c
           /\ rate_op'.outcome = "blocked")
          => /\ ~rate_op'.result
             /\ pending' = pending
             /\ requests' = requests
             /\ abuse_scores' = abuse_scores
             /\ blocked_ips' = blocked_ips
      ]_vars

\* a request was rejected as blocked some time into the block, with
\* timestamps in the client's window
C33_Witness ==
    \E c \in Clients :
        /\ rate_op.op = "dispatch" /\ rate_op.client_id = c
        /\ rate_op.outcome = "blocked"
        /\ c \in DOMAIN blocked_ips
        /\ now < blocked_ips[c]
        /\ blocked_ips[c] \notin {now + 600, now + 3600}
        /\ requests[c] # <<>>

\* C38 (as claimed): no call replaces a stored block expiry that the clock
\* has not reached with an earlier one.
C38_BlockNeverShortened ==
    [][\A c \in Clients :
          (/\ c \in DOMAIN blocked_ips
           /\ now < blocked_ips[c]
           /\ c \in DOMAIN blocked_ips')
          => blocked_ips'[c] >= blocked_ips[c]
      ]_vars

\* C38 (amended): no call removes a stored block expiry that the clock has
\* not reached, and is_blocked and record_suspicious_activity never replace
\* it with an earlier one; the only call that does is a denied
\* check_rate_limit, which sets the expiry to 600 seconds from the call
\* whatever is stored.
C38_OnlyDeniedCheckShortensBlock ==
    [][\A c \in Clients :
          (/\ c \in DOMAIN blocked_ips
           /\ now < blocked_ips[c])
          => /\ c \in DOMAIN blocked_ips'
             /\ \/ blocked_ips'[c] >= blocked_ips[c]
                \/ /\ rate_op'.op = "check_rate_limit"
                   /\ rate_op'.client_id = c
                   /\ ~rate_op'.result
                   /\ blocked_ips'[c] = now + 600
      ]_vars

\* is_blocked was called some time into a block and left its expiry, set at
\* an earlier time, in place
C38_Witness ==
    \E c \in Clients :
        /\ rate_op.op = "is_blocked" /\ rate_op.client_id = c
        /\ rate_op.result
        /\ now > 0
        /\ c \in DOMAIN blocked_ips
        /\ now < blocked_ips[c]
        /\ blocked_ips[c] \notin {now + 600, now + 3600}

====
